---------------------------- MODULE Spec2Model ----------------------------
(***************************************************************************)
(* The Telegram shop bot: the cart functions of the record store           *)
(* (src/database/requests.py, src/database/models.py) and the dialogues of *)
(* the administrator (src/handlers/admin.py).                              *)
(*                                                                         *)
(* The record store is modelled as the committed contents of the tables    *)
(* `product`, `cart` and `banner`.  The specifications are:                *)
(*                                                                         *)
(*   Spec      every orm_* cart function runs to completion as one action  *)
(*             (one handler at a time);                                    *)
(*   SpecAdds  only the buy button is pressed;                             *)
(*   SpecConc  the same functions cut at their awaits: every SELECT and    *)
(*             every flush+commit is a step of a transaction, steps of     *)
(*             different transactions interleave.  The store gives         *)
(*             row-level locks and read-committed visibility: a plain      *)
(*             SELECT reads the last committed row and never blocks,       *)
(*             SELECT ... FOR UPDATE takes the row lock until the          *)
(*             transaction ends, an UPDATE waits for the row lock;         *)
(*   SpecWizard     the updates of the administrator, each taken by the    *)
(*             first handler whose filters pass, on a shop that starts     *)
(*             without products;                                           *)
(*   SpecOperators  the dialogues of several chats, their updates handled  *)
(*             one after the other in any order;                           *)
(*   SpecBanner     the banner dialogue of the administrators;             *)
(*   SpecVisitors   chats outside the allow-list send the updates of the   *)
(*             administration;                                             *)
(*   SpecPaginator, SpecMultiplication  the functions of the library,      *)
(*             called with arguments drawn from bounded sets;              *)
(*   SpecSeed       the tables category and banner are seeded at every     *)
(*             start of the shop;                                          *)
(*   SpecCatalog    a user pages through a category while products are     *)
(*             deleted;                                                    *)
(*   SpecCarts      the resolver of the cart view, cut at its awaits;      *)
(*   SpecStale      the administrator presses buttons of older messages;   *)
(*   SpecScreens    a user presses the buttons of the cart messages and    *)
(*             product screens on the screen, older ones included;         *)
(*   SpecItems      a user opens the catalog after the seeding;            *)
(*   SpecEdit       products are changed while a user buys and gives back. *)
(***************************************************************************)
EXTENDS Integers, FiniteSets, Sequences, TLC

(***************************************************************************)
(* Bounds of the model.                                                    *)
(***************************************************************************)
NumUsers == 2
NumProducts == 2
MaxQty == 2
MaxCartId == 4
NumTxns == 2
\* the wizard stores any integer as quantity (admin.py:479-484); the model
\* starts from stocks down to -MaxShortage
MaxShortage == 1
\* chats that hold a dialogue with the bot
NumOperators == 2
\* ids the table product hands out while the wizard is at work
MaxProductId == 1

Users == 1..NumUsers
\* ids of the rows of table product
Products == 1..NumProducts
\* ids a callback payload can carry: the stored products and one id that
\* names no row
ProductIds == 1..(NumProducts + 1)
Txns == 1..NumTxns
Operators == 1..NumOperators
Chats == 1..(NumOperators + 1)

VARIABLES
    product,    \* table product: id -> row
    cart,       \* table cart: set of rows [id, user_id, product_id, quantity]
    nextId,     \* autoincrement counter of cart.id
    start,      \* the tables as they were before the first operation
    last,       \* Spec: the operation that ran last, with its return value
    before,     \* Spec: the tables as they were before that operation
    calls,      \* SpecAdds: presses of the buy button, per product id
    pc,         \* SpecConc: position of every transaction
    arg,        \* SpecConc: arguments of the function a transaction runs
    loaded,     \* SpecConc: ORM objects loaded into the transaction's session
    ret,        \* SpecConc: return value of the function
    lock,       \* SpecConc: owner of the row lock of every product row
    nextProductId,      \* autoincrement counter of product.id
    banner,             \* table banner: name -> image
    fsmState,           \* FSM storage: state of every chat
    fsmData,            \* FSM storage: data of every chat
    product_for_change, \* the class attribute AddProduct.product_for_change
    event,              \* the update handled last and the handler that took it
    chosen,             \* what every chat chose when it entered the dialogue it is in
    args,               \* the arguments of the call of a function of the library
    paginator,          \* the Paginator object that was constructed
    returned,           \* the call made last, with what it returned or raised
    category,           \* table category: the names in the order of their ids
    kbds                \* the cart keyboards on the screen of the user

storeVars == <<product, cart, nextId>>
seqVars == <<last, before>>
concVars == <<pc, arg, loaded, ret, lock>>
wizVars == <<nextProductId, banner, fsmState, fsmData, product_for_change, event, chosen>>
libVars == <<args, paginator, returned, category, kbds>>
vars == <<product, cart, nextId, start, last, before, calls, pc, arg, loaded, ret, lock,
          nextProductId, banner, fsmState, fsmData, product_for_change, event, chosen,
          args, paginator, returned, category, kbds>>

(***************************************************************************)
(* Rows and queries.                                                       *)
(***************************************************************************)
\* result.scalar() of a query that matched no row
NoRow == [id |-> 0, user_id |-> 0, product_id |-> 0, quantity |-> 0]

\* models.py:80-88; price is a whole number of roubles in the model
Product(name, description, price, quantity, image, category_id) ==
    [name |-> name, description |-> description, price |-> price,
     quantity |-> quantity, image |-> image, category_id |-> category_id]

\* a product of the catalogue with q units on hand
InStock(q) == Product("n", "d", 1, q, "i", 1)

Cart(id, user_id, product_id, quantity) ==
    [id |-> id, user_id |-> user_id, product_id |-> product_id, quantity |-> quantity]

MinId(rows) == CHOOSE i \in {r.id : r \in rows} : \A r \in rows : i <= r.id

\* result.scalar(): the first row of the result, None when there is none
Scalar(rows) ==
    IF rows = {} THEN NoRow ELSE CHOOSE r \in rows : r.id = MinId(rows)

\* select(Cart).where(Cart.user_id == user_id, Cart.product_id == product_id)
SelectCart(c, user_id, product_id) ==
    {r \in c : r.user_id = user_id /\ r.product_id = product_id}

RECURSIVE ScalarsAll(_)
\* result.scalars().all(): the rows in primary-key order
ScalarsAll(rows) ==
    IF rows = {} THEN <<>>
    ELSE LET r == Scalar(rows) IN <<r>> \o ScalarsAll(rows \ {r})

RECURSIVE SumQuantity(_)
SumQuantity(rows) ==
    IF rows = {} THEN 0
    ELSE LET r == CHOOSE x \in rows : TRUE IN r.quantity + SumQuantity(rows \ {r})

\* units of product p in the carts of all users
InCarts(c, p) == SumQuantity({r \in c : r.product_id = p})

\* on-hand plus reserved units of product p
Total(prod, c, p) == prod[p].quantity + InCarts(c, p)


(***************************************************************************)
(* Statements of the unit of work.  The ORM writes the attribute values of *)
(* the objects in the session, i.e. the values computed from what the      *)
(* session loaded, not an increment evaluated by the store.                *)
(***************************************************************************)
\* UPDATE product SET quantity = q WHERE id = product_id
UpdateProduct(prod, product_id, q) ==
    [prod EXCEPT ![product_id] = [@ EXCEPT !.quantity = q]]

\* UPDATE cart SET quantity = q WHERE id = id
UpdateCart(c, id, q) ==
    {IF r.id = id THEN [r EXCEPT !.quantity = q] ELSE r : r \in c}

\* Variant: DELETE FROM cart WHERE product_id = (product of row id)
DeleteCart_EveryLineOfTheProduct(c, id) ==
    {r \in c : \A d \in c : d.id = id => r.product_id # d.product_id}

\* DELETE FROM cart WHERE id = id
DeleteCart(c, id) == {r \in c : r.id # id}

\* An UPDATE that matches no row makes the flush fail (StaleDataError) and
\* the transaction is rolled back; a DELETE that matches no row only warns.
RowExists(c, id) == \E r \in c : r.id = id

Tables(prod, c, nid, value) ==
    [product |-> prod, cart |-> c, nextId |-> nid, ret |-> value]

(***************************************************************************)
(* orm_add_to_cart                                                         *)
(***************************************************************************)
\* Variant: the test is `product.quantity < 0`.
NoStock_ZeroSells(prod, product_id) ==
    product_id \notin DOMAIN prod \/ prod[product_id].quantity < 0

\* requests.py:293  `if not product or product.quantity <= 0`
NoStock(prod, product_id) ==
    product_id \notin DOMAIN prod \/ prod[product_id].quantity <= 0

\* Variant: the branch of an existing line leaves product.quantity alone.
AddToCartCommit_IncrementKeepsStock(prod, c, nid, user_id, product_id, q, row) ==
    IF row # NoRow
    THEN IF RowExists(c, row.id)
         THEN Tables(prod, UpdateCart(c, row.id, row.quantity + 1), nid, "True")
         ELSE Tables(prod, c, nid, "Error")
    ELSE Tables(UpdateProduct(prod, product_id, q - 1),
                c \cup {Cart(nid, user_id, product_id, 1)}, nid + 1, "True")

\* Variant: the branch of a new line leaves product.quantity alone.
AddToCartCommit_InsertKeepsStock(prod, c, nid, user_id, product_id, q, row) ==
    IF row # NoRow
    THEN IF RowExists(c, row.id)
         THEN Tables(UpdateProduct(prod, product_id, q - 1),
                     UpdateCart(c, row.id, row.quantity + 1), nid, "True")
         ELSE Tables(prod, c, nid, "Error")
    ELSE Tables(prod, c \cup {Cart(nid, user_id, product_id, 1)}, nid + 1, "True")

\* requests.py:300-313: q and row are the product quantity and the cart row
\* the session loaded; the result is the committed tables and the return
\* value ("Error" when the flush fails).
AddToCartCommit(prod, c, nid, user_id, product_id, q, row) ==
    IF row # NoRow
    THEN IF RowExists(c, row.id)
         THEN Tables(UpdateProduct(prod, product_id, q - 1),
                     UpdateCart(c, row.id, row.quantity + 1), nid, "True")
         ELSE Tables(prod, c, nid, "Error")
    ELSE Tables(UpdateProduct(prod, product_id, q - 1),
                c \cup {Cart(nid, user_id, product_id, 1)}, nid + 1, "True")

(***************************************************************************)
(* orm_delete_from_cart                                                    *)
(***************************************************************************)
\* Variant: one unit goes back to the stock instead of the whole line.
DeleteFromCartCommit_OneUnit(prod, c, nid, product_id, q, row) ==
    Tables(UpdateProduct(prod, product_id, q + 1),
           DeleteCart(c, row.id), nid, "None")

\* requests.py:348-352
DeleteFromCartCommit(prod, c, nid, product_id, q, row) ==
    Tables(UpdateProduct(prod, product_id, q + row.quantity),
           DeleteCart(c, row.id), nid, "None")

(***************************************************************************)
(* orm_reduce_product_in_cart                                              *)
(***************************************************************************)
\* Variant: deleting the last unit does not put it back into the stock.
ReduceProductInCartCommit_NoRestock(prod, c, nid, product_id, q, row) ==
    IF row.quantity > 1
    THEN IF RowExists(c, row.id)
         THEN Tables(UpdateProduct(prod, product_id, q + 1),
                     UpdateCart(c, row.id, row.quantity - 1), nid, "True")
         ELSE Tables(prod, c, nid, "Error")
    ELSE Tables(prod, DeleteCart(c, row.id), nid, "False")

\* Variant: True is returned whenever the line existed, also when it was
\* deleted.
ReduceProductInCartCommit_ReturnsTrue(prod, c, nid, product_id, q, row) ==
    IF row.quantity > 1
    THEN IF RowExists(c, row.id)
         THEN Tables(UpdateProduct(prod, product_id, q + 1),
                     UpdateCart(c, row.id, row.quantity - 1), nid, "True")
         ELSE Tables(prod, c, nid, "Error")
    ELSE Tables(UpdateProduct(prod, product_id, q + 1),
                DeleteCart(c, row.id), nid, "True")

\* Variant: the test is `cart.quantity >= 1`, a line of one unit is lowered
\* instead of deleted.
ReduceProductInCartCommit_KeepsEmptyLine(prod, c, nid, product_id, q, row) ==
    IF row.quantity >= 1
    THEN IF RowExists(c, row.id)
         THEN Tables(UpdateProduct(prod, product_id, q + 1),
                     UpdateCart(c, row.id, row.quantity - 1), nid, "True")
         ELSE Tables(prod, c, nid, "Error")
    ELSE Tables(UpdateProduct(prod, product_id, q + 1),
                DeleteCart(c, row.id), nid, "False")

\* requests.py:376-385
ReduceProductInCartCommit(prod, c, nid, product_id, q, row) ==
    IF row.quantity > 1
    THEN IF RowExists(c, row.id)
         THEN Tables(UpdateProduct(prod, product_id, q + 1),
                     UpdateCart(c, row.id, row.quantity - 1), nid, "True")
         ELSE Tables(prod, c, nid, "Error")
    ELSE Tables(UpdateProduct(prod, product_id, q + 1),
                DeleteCart(c, row.id), nid, "False")

(***************************************************************************)
(* Spec: one handler at a time, every function runs to completion.         *)
(***************************************************************************)
Op(name, user_id, product_id, value, rows) ==
    [op |-> name, user_id |-> user_id, product_id |-> product_id,
     ret |-> value, rows |-> rows]

Snapshot == [product |-> product, cart |-> cart]

\* the tables take the values of t, the operation is recorded
Finish(name, user_id, product_id, t) ==
    /\ product' = t.product
    /\ cart' = t.cart
    /\ nextId' = t.nextId
    /\ last' = Op(name, user_id, product_id, t.ret, <<>>)
    /\ before' = Snapshot
    /\ UNCHANGED <<start, concVars>>

\* Users are the Telegram ids that have a row in table user (cart.user_id
\* refers to it).
\* requests.py:272-313
orm_add_to_cart(user_id, product_id) ==
    /\ nextId <= MaxCartId
    /\ IF NoStock(product, product_id)
       THEN Finish("add", user_id, product_id, Tables(product, cart, nextId, "False"))
       ELSE Finish("add", user_id, product_id,
                   AddToCartCommit(product, cart, nextId, user_id, product_id,
                                   product[product_id].quantity,
                                   Scalar(SelectCart(cart, user_id, product_id))))

\* requests.py:316-329
orm_get_user_carts(user_id) ==
    /\ last' = Op("list", user_id, 0, "None",
                  ScalarsAll({r \in cart : r.user_id = user_id}))
    /\ before' = Snapshot
    /\ UNCHANGED <<storeVars, start, concVars>>

\* requests.py:332-352
orm_delete_from_cart(user_id, product_id) ==
    LET row == Scalar(SelectCart(cart, user_id, product_id)) IN
    IF row # NoRow
    THEN Finish("delete", user_id, product_id,
                DeleteFromCartCommit(product, cart, nextId, product_id,
                                     product[product_id].quantity, row))
    ELSE Finish("delete", user_id, product_id, Tables(product, cart, nextId, "None"))

\* requests.py:355-386
orm_reduce_product_in_cart(user_id, product_id) ==
    LET row == Scalar(SelectCart(cart, user_id, product_id)) IN
    IF row # NoRow
    THEN Finish("reduce", user_id, product_id,
                ReduceProductInCartCommit(product, cart, nextId, product_id,
                                          product[product_id].quantity, row))
    ELSE Finish("reduce", user_id, product_id, Tables(product, cart, nextId, "False"))

(***************************************************************************)
(* The dialogues of the administrator (src/handlers/admin.py).  The FSM    *)
(* storage keeps a state and a data dictionary per chat; the product being *)
(* changed is an attribute of the class AddProduct, one for all chats.     *)
(***************************************************************************)
\* state of a chat that is in no dialogue
NoState == "None"

\* admin.py:34-44, Banner.image
BannerImage == "Banner:image"

\* admin.py:47-72, AddProduct.__all_states__ in the order of definition
AllStates ==
    <<"AddProduct:name", "AddProduct:description", "AddProduct:category",
      "AddProduct:price", "AddProduct:quantity", "AddProduct:image">>

\* the keys state.update_data() writes, in the order of the states
Fields == <<"name", "description", "category", "price", "quantity", "image">>

\* position of a state in AddProduct.__all_states__, 0 for any other state
StepOf(st) ==
    IF \E i \in DOMAIN AllStates : AllStates[i] = st
    THEN CHOOSE i \in DOMAIN AllStates : AllStates[i] = st
    ELSE 0

\* Values of the data dictionary: the text of a message or of a callback
\* payload (str), an attribute of the product being changed that is a number
\* (Decimal, int), or no entry under the key.
Text(s) == [kind |-> "str", text |-> s, num |-> 0]
Num(n) == [kind |-> "num", text |-> "", num |-> n]
Unset == [kind |-> "unset", text |-> "", num |-> 0]

\* the data of a chat after state.clear()
NoData == [f \in {Fields[i] : i \in DOMAIN Fields} |-> Unset]

\* AddProduct.product_for_change = None (admin.py:74)
NoProduct ==
    [id |-> 0, name |-> "", description |-> "", price |-> 0, quantity |-> 0,
     image |-> "", category_id |-> 0]

\* requests.py:175-191, the object orm_get_product returns: the attributes of
\* the row as they are when it is loaded
orm_get_product(prod, product_id) ==
    IF product_id \in DOMAIN prod
    THEN [id |-> product_id, name |-> prod[product_id].name,
          description |-> prod[product_id].description,
          price |-> prod[product_id].price,
          quantity |-> prod[product_id].quantity,
          image |-> prod[product_id].image,
          category_id |-> prod[product_id].category_id]
    ELSE NoProduct

\* names of the rows of table banner, seeded at start (engine.py:36-38)
BannerNames == {"main", "catalog"}

\* banner.image of a row that got no image yet
NoImage == ""

\* the update handled last: the handler that took it ("none" when no handler
\* matched), the chat, the kind of update (text, photo, callback), its text
\* (message.text, message.caption or callback.data) and how the handler ended
\* ("done", "return" for an early return, "raise" for an exception)
Event(handler, user_id, kind, text, result) ==
    [handler |-> handler, user_id |-> user_id, kind |-> kind, text |-> text,
     result |-> result]

NoEvent == Event("none", 0, "none", "", "none")

\* no chat is in a dialogue
(***************************************************************************)
(* The library: Paginator (paginator/pag.py).  Python values                *)
(* are records with their type, so that False is told from a number.        *)
(***************************************************************************)
int(n) == [type |-> "int", value |-> n]
False == [type |-> "bool", value |-> 0]
None == [type |-> "NoneType", value |-> 0]
Error(message) == [type |-> message, value |-> 0]

\* a call with what it returned, or with the exception that left it
Returned(call, value) == [call |-> call, kind |-> "return", value |-> value]
Raised(call, message) == [call |-> call, kind |-> "raise", value |-> Error(message)]
NoResult == [call |-> "none", kind |-> "none", value |-> None]

\* Variant: the page is checked before the array.
PaginatorError_PageFirst(array, page) ==
    IF page < 1 THEN "ValueError: Page must be greater than 0"
    ELSE IF array = <<>> THEN "ValueError: Array cannot be empty"
    ELSE IF Len(array) < page THEN "IndexError: This page doesn't exist"
    ELSE "none"

\* pag.py:34-39, the checks of Paginator.__init__ in their order
PaginatorError(array, page) ==
    IF array = <<>> THEN "ValueError: Array cannot be empty"
    ELSE IF page < 1 THEN "ValueError: Page must be greater than 0"
    ELSE IF Len(array) < page THEN "IndexError: This page doesn't exist"
    ELSE "none"

\* pag.py:41-44, the attributes of the object
Paginator(array, page) ==
    [array |-> array, page |-> page, len |-> Len(array), pages |-> Len(array)]
NoPaginator == Paginator(<<>>, 0)

\* pag.py:46-54; the index ind counts from 0, a sequence from 1
get_item(self) == LET ind == self.page - 1 IN self.array[ind + 1]

\* Variant: the last page has a next page.
has_next_PastTheEnd(self) ==
    IF self.page <= self.pages THEN int(self.page + 1) ELSE False

\* pag.py:56-65
has_next(self) ==
    IF self.page < self.pages THEN int(self.page + 1) ELSE False

\* pag.py:67-76
has_previous(self) ==
    IF self.page > 1 THEN int(self.page - 1) ELSE False

\* the names of the categories of the shop
CategoryNames == {"A", "B"}

\* the table category after the start of the shop
Seeded == <<"A">>

\* the messages of the cart a user can have on the screen
MaxMessages == 2
Messages == 1..MaxMessages

\* a cart message: the page and the number of pages of its caption
\* (menu.py:257), the product of its line and its buttons
Screen(page, len, product_id, btns) ==
    [page |-> page, pages |-> len, product_id |-> product_id, btns |-> btns]
NoKeyboard == Screen(0, 0, 0, {})

\* no cart message is on the screen
NoKeyboards == [m \in Messages |-> NoKeyboard]

NoArgs == [array |-> <<>>, page |-> 0]
NoCall ==
    /\ args = NoArgs
    /\ paginator = NoPaginator
    /\ returned = NoResult
    /\ category = Seeded
    /\ kbds = NoKeyboards

\* the entry of a chat into the product dialogue: with the button "Add product"
\* (kind "add") or with the button change_<id> of a product (kind "change")
Choice(kind, id) == [kind |-> kind, id |-> id]
NoChoice == Choice("none", 0)

NoSession ==
    /\ chosen = [o \in Chats |-> NoChoice]
    /\ banner = [b \in BannerNames |-> NoImage]
    /\ fsmState = [o \in Chats |-> NoState]
    /\ fsmData = [o \in Chats |-> NoData]
    /\ product_for_change = NoProduct
    /\ event = NoEvent

Idle == [t \in Txns |-> "idle"]
NoArg == [t \in Txns |-> [op |-> "none", user_id |-> 0, product_id |-> 0]]
NoLoaded == [t \in Txns |-> [quantity |-> 0, cart |-> NoRow]]
NoRet == [t \in Txns |-> "None"]
NoLock == [p \in Products |-> 0]

\* Stock as the wizard can have stored it (int() takes a negative number),
\* no cart line yet.
Init ==
    /\ \E q \in [Products -> (0 - MaxShortage)..MaxQty] :
            product = [p \in Products |-> InStock(q[p])]
    /\ cart = {}
    /\ nextId = 1
    /\ start = Snapshot
    /\ last = Op("none", 0, 0, "None", <<>>)
    /\ before = Snapshot
    /\ calls = [p \in ProductIds |-> 0]
    /\ pc = Idle
    /\ arg = NoArg
    /\ loaded = NoLoaded
    /\ ret = NoRet
    /\ lock = NoLock
    /\ nextProductId = NumProducts + 1
    /\ NoSession
    /\ NoCall

Next ==
    \/ \E u \in Users, p \in ProductIds : orm_add_to_cart(u, p) /\ UNCHANGED <<calls, wizVars, libVars>>
    \/ \E u \in Users : orm_get_user_carts(u) /\ UNCHANGED <<calls, wizVars, libVars>>
    \/ \E u \in Users, p \in ProductIds : orm_delete_from_cart(u, p) /\ UNCHANGED <<calls, wizVars, libVars>>
    \/ \E u \in Users, p \in ProductIds : orm_reduce_product_in_cart(u, p) /\ UNCHANGED <<calls, wizVars, libVars>>

Spec == Init /\ [][Next]_vars

(***************************************************************************)
(* SpecAdds: only the buy button is pressed.                               *)
(***************************************************************************)
MaxCalls == MaxQty + 2

\* menu.py:173-197, the handler of the buy button.  orm_add_user leaves the
\* table user as it is for the users of the model, who all have their row.
add_to_cart(user_id, product_id) ==
    /\ calls[product_id] < MaxCalls
    /\ orm_add_to_cart(user_id, product_id)
    /\ calls' = [calls EXCEPT ![product_id] = @ + 1]

NextAdds == \E u \in Users, p \in ProductIds : add_to_cart(u, p) /\ UNCHANGED <<wizVars, libVars>>

SpecAdds == Init /\ [][NextAdds]_vars

(***************************************************************************)
(* SpecConc: the functions cut at their awaits.  Every transaction runs    *)
(* one function in a session of its own.                                   *)
(***************************************************************************)
MaxLine == 2

\* Variant: the locking read does not wait for the holder of the lock.
RowLockFree_NoWait(lk, product_id, t) == TRUE

\* SELECT ... FOR UPDATE on product row product_id returns once no other
\* transaction holds the row lock (requests.py:289 with_for_update); an
\* UPDATE of the row waits the same way.  A row that does not exist is not
\* locked.
RowLockFree(lk, product_id, t) ==
    IF product_id \in DOMAIN lk THEN lk[product_id] \in {0, t} ELSE TRUE

\* Variant: a plain select, no lock is taken.
Acquire_NoLock(lk, product_id, t) == lk

\* the row lock taken by with_for_update()
Acquire(lk, product_id, t) == [lk EXCEPT ![product_id] = t]

\* commit or rollback releases the row locks of the transaction
Release(lk, t) == [p \in DOMAIN lk |-> IF lk[p] = t THEN 0 ELSE lk[p]]

Call(t, name, user_id, product_id) ==
    arg' = [arg EXCEPT ![t] = [op |-> name, user_id |-> user_id, product_id |-> product_id]]

Return(t, value) ==
    /\ pc' = [pc EXCEPT ![t] = "done"]
    /\ ret' = [ret EXCEPT ![t] = value]

\* the flush and commit of transaction t: the tables take the values of tb
Commit(t, tb) ==
    /\ product' = tb.product
    /\ cart' = tb.cart
    /\ nextId' = tb.nextId
    /\ lock' = Release(lock, t)
    /\ Return(t, tb.ret)
    /\ UNCHANGED <<arg, loaded, start, seqVars>>

\* requests.py:289-294: the locking read of the product row; on the early
\* return the session is closed without another statement, which ends the
\* transaction
orm_add_to_cart_product(t, user_id, product_id) ==
    /\ pc[t] = "idle"
    /\ RowLockFree(lock, product_id, t)
    /\ Call(t, "add", user_id, product_id)
    /\ IF NoStock(product, product_id)
       THEN /\ Return(t, "False")
            /\ UNCHANGED <<loaded, lock>>
       ELSE /\ loaded' = [loaded EXCEPT ![t].quantity = product[product_id].quantity]
            /\ lock' = Acquire(lock, product_id, t)
            /\ pc' = [pc EXCEPT ![t] = "add_cart"]
            /\ UNCHANGED ret
    /\ UNCHANGED <<storeVars, start, seqVars>>

\* requests.py:296-298
orm_add_to_cart_cart(t) ==
    /\ pc[t] = "add_cart"
    /\ loaded' = [loaded EXCEPT ![t].cart =
                     Scalar(SelectCart(cart, arg[t].user_id, arg[t].product_id))]
    /\ pc' = [pc EXCEPT ![t] = "add_commit"]
    /\ UNCHANGED <<storeVars, start, seqVars, arg, ret, lock>>

\* requests.py:300-313
orm_add_to_cart_commit(t) ==
    /\ pc[t] = "add_commit"
    /\ RowLockFree(lock, arg[t].product_id, t)
    /\ Commit(t, AddToCartCommit(product, cart, nextId, arg[t].user_id,
                                 arg[t].product_id, loaded[t].quantity, loaded[t].cart))

\* requests.py:344-348: the cart row and, joined to it, its product row,
\* read without a lock
orm_delete_from_cart_select(t, user_id, product_id) ==
    /\ pc[t] = "idle"
    /\ Call(t, "delete", user_id, product_id)
    /\ LET row == Scalar(SelectCart(cart, user_id, product_id)) IN
       IF row = NoRow
       THEN /\ Return(t, "None")
            /\ UNCHANGED loaded
       ELSE /\ loaded' = [loaded EXCEPT ![t] =
                             [quantity |-> product[product_id].quantity, cart |-> row]]
            /\ pc' = [pc EXCEPT ![t] = "delete_commit"]
            /\ UNCHANGED ret
    /\ UNCHANGED <<storeVars, start, seqVars, lock>>

\* requests.py:349-352
orm_delete_from_cart_commit(t) ==
    /\ pc[t] = "delete_commit"
    /\ RowLockFree(lock, arg[t].product_id, t)
    /\ Commit(t, DeleteFromCartCommit(product, cart, nextId, arg[t].product_id,
                                      loaded[t].quantity, loaded[t].cart))

\* requests.py:371-375, 386: the same unlocked read
orm_reduce_product_in_cart_select(t, user_id, product_id) ==
    /\ pc[t] = "idle"
    /\ Call(t, "reduce", user_id, product_id)
    /\ LET row == Scalar(SelectCart(cart, user_id, product_id)) IN
       IF row = NoRow
       THEN /\ Return(t, "False")
            /\ UNCHANGED loaded
       ELSE /\ loaded' = [loaded EXCEPT ![t] =
                             [quantity |-> product[product_id].quantity, cart |-> row]]
            /\ pc' = [pc EXCEPT ![t] = "reduce_commit"]
            /\ UNCHANGED ret
    /\ UNCHANGED <<storeVars, start, seqVars, lock>>

\* requests.py:376-385
orm_reduce_product_in_cart_commit(t) ==
    /\ pc[t] = "reduce_commit"
    /\ RowLockFree(lock, arg[t].product_id, t)
    /\ Commit(t, ReduceProductInCartCommit(product, cart, nextId, arg[t].product_id,
                                           loaded[t].quantity, loaded[t].cart))

\* the cart rows of a store in which user u holds k[u] units of every product
CartOf(k) ==
    {Cart((u - 1) * NumProducts + p, u, p, k[u]) : u \in {x \in Users : k[x] > 0}, p \in Products}

\* Tables the sequential operations lead to: every product with the same
\* stock, every user with no line or with a line of the same quantity for
\* every product.
InitConc ==
    /\ \E q \in 0..MaxQty : product = [p \in Products |-> InStock(q)]
    /\ \E k \in [Users -> 0..MaxLine] : cart = CartOf(k)
    /\ nextId = NumUsers * NumProducts + 1
    /\ start = Snapshot
    /\ last = Op("none", 0, 0, "None", <<>>)
    /\ before = Snapshot
    /\ calls = [p \in ProductIds |-> 0]
    /\ pc = Idle
    /\ arg = NoArg
    /\ loaded = NoLoaded
    /\ ret = NoRet
    /\ lock = NoLock
    /\ nextProductId = NumProducts + 1
    /\ NoSession
    /\ NoCall

NextConc ==
    \/ \E t \in Txns, u \in Users, p \in ProductIds : orm_add_to_cart_product(t, u, p) /\ UNCHANGED <<calls, wizVars, libVars>>
    \/ \E t \in Txns : orm_add_to_cart_cart(t) /\ UNCHANGED <<calls, wizVars, libVars>>
    \/ \E t \in Txns : orm_add_to_cart_commit(t) /\ UNCHANGED <<calls, wizVars, libVars>>
    \/ \E t \in Txns, u \in Users, p \in ProductIds : orm_delete_from_cart_select(t, u, p) /\ UNCHANGED <<calls, wizVars, libVars>>
    \/ \E t \in Txns : orm_delete_from_cart_commit(t) /\ UNCHANGED <<calls, wizVars, libVars>>
    \/ \E t \in Txns, u \in Users, p \in ProductIds : orm_reduce_product_in_cart_select(t, u, p) /\ UNCHANGED <<calls, wizVars, libVars>>
    \/ \E t \in Txns : orm_reduce_product_in_cart_commit(t) /\ UNCHANGED <<calls, wizVars, libVars>>

SpecConc == InitConc /\ [][NextConc]_vars

(***************************************************************************)
(* Properties.                                                             *)
(***************************************************************************)
\* quantity of the cart lines of (user_id, product_id), 0 when there is none
LineQuantity(c, user_id, product_id) == SumQuantity(SelectCart(c, user_id, product_id))

LastIs(name) == last.op = name /\ last.product_id \in Products

\* C1 (Spec): for every product, the stock plus the units in all carts is
\* after any sequence of add, decrement, remove and list what it was before
\* the sequence.
C1_Conservation ==
    \A p \in Products : Total(product, cart, p) = Total(start.product, start.cart, p)

\* a unit went back to the stock while another line is still in a cart
C1_Witness ==
    /\ last.op \in {"reduce", "delete"}
    /\ cart # before.cart
    /\ cart # {}

\* C4 (Spec): an add on a product with quantity > 0 returns True, lowers the
\* stock by exactly 1 and raises the one line of (user, product) by exactly
\* 1; the line is created with quantity 1 when there was none.
C4_AddTakesOneUnit ==
    (LastIs("add") /\ before.product[last.product_id].quantity > 0) =>
        /\ last.ret = "True"
        /\ product[last.product_id].quantity =
               before.product[last.product_id].quantity - 1
        /\ Cardinality(SelectCart(cart, last.user_id, last.product_id)) = 1
        /\ LineQuantity(cart, last.user_id, last.product_id) =
               LineQuantity(before.cart, last.user_id, last.product_id) + 1

\* an add raised an existing line
C4_Witness ==
    /\ LastIs("add")
    /\ last.ret = "True"
    /\ LineQuantity(before.cart, last.user_id, last.product_id) = 1
    /\ LineQuantity(cart, last.user_id, last.product_id) = 2

\* C5 (Spec): an add on a product that does not exist or whose quantity is
\* <= 0 returns False and changes no product and no cart line.
C5_AddRefused ==
    (last.op = "add" /\ (last.product_id \notin Products
                         \/ before.product[last.product_id].quantity <= 0)) =>
        /\ last.ret = "False"
        /\ product = before.product
        /\ cart = before.cart

\* an add was refused on a product that was sold out to the carts
C5_Witness ==
    /\ LastIs("add")
    /\ last.ret = "False"
    /\ before.product[last.product_id].quantity = 0
    /\ InCarts(cart, last.product_id) > 0

\* C6 (SpecAdds): starting from quantity q >= 0 and no cart line, with only
\* adds running, the call number n on a product returns True exactly when
\* n <= q, and after every later call the quantity is 0.
C6_SellsExactlyTheStock ==
    (LastIs("add") /\ start.product[last.product_id].quantity >= 0) =>
        /\ last.ret = "True" <=>
               calls[last.product_id] <= start.product[last.product_id].quantity
        /\ calls[last.product_id] > start.product[last.product_id].quantity =>
               product[last.product_id].quantity = 0

\* the add after the last unit of a stock of MaxQty went to the carts of two
\* users
C6_Witness ==
    /\ LastIs("add")
    /\ last.ret = "False"
    /\ start.product[last.product_id].quantity = MaxQty
    /\ calls[last.product_id] = MaxQty + 1
    /\ \A u \in Users : LineQuantity(cart, u, last.product_id) > 0

C8_Remove ==
    LastIs("delete") =>
        LET n == LineQuantity(before.cart, last.user_id, last.product_id) IN
        /\ n > 0 => /\ product[last.product_id].quantity =
                           before.product[last.product_id].quantity + n
                    /\ SelectCart(cart, last.user_id, last.product_id) = {}
        /\ n = 0 => /\ product = before.product
                    /\ cart = before.cart

\* a line of two units was removed
C8_Witness ==
    /\ LastIs("delete")
    /\ LineQuantity(before.cart, last.user_id, last.product_id) = 2
    /\ SelectCart(cart, last.user_id, last.product_id) = {}

\* C10 (Spec): every cart line has quantity >= 1.
C10_LinesArePositive == \A r \in cart : r.quantity >= 1

\* a decrement left a line in place
C10_Witness ==
    /\ LastIs("reduce")
    /\ last.ret = "True"
    /\ \E r \in cart : /\ r.user_id = last.user_id
                       /\ r.product_id = last.product_id
                       /\ r.quantity = 1

(***************************************************************************)
(* Properties of SpecConc.                                                 *)
(***************************************************************************)
Started == {t \in Txns : arg[t].op # "none"}
Finished == {t \in Txns : pc[t] = "done"}

\* the transactions that run orm_add_to_cart on product p
Adds(p) == {t \in Txns : arg[t].op = "add" /\ arg[t].product_id = p}
Sold(p) == {t \in Adds(p) : ret[t] = "True"}

Min(a, b) == IF a <= b THEN a ELSE b

C3_ConservationInterleaved ==
    (/\ Started = Finished
     /\ \E t \in Started : arg[t].op \in {"reduce", "delete"}
     /\ \A t1, t2 \in Started : t1 # t2 => arg[t1].user_id # arg[t2].user_id)
    => \A p \in Products : Total(product, cart, p) = Total(start.product, start.cart, p)

\* C9 (SpecConc): there is at most one cart line per (user, product), also
\* after concurrent adds of the same user for the same product.
C9_OneLinePerUserAndProduct ==
    \A r1, r2 \in cart :
        (r1.user_id = r2.user_id /\ r1.product_id = r2.product_id) => r1 = r2

\* two adds of one user, who had no line for the product, both returned True
C9_Witness ==
    \E p \in Products, t1, t2 \in Txns :
        /\ t1 # t2
        /\ {t1, t2} \subseteq Sold(p) \cap Finished
        /\ arg[t1].user_id = arg[t2].user_id
        /\ SelectCart(start.cart, arg[t1].user_id, p) = {}
        /\ LineQuantity(cart, arg[t1].user_id, p) = 2

(***************************************************************************)
(* Dispatch of an update (src/main.py:40, dp.include_routers(router,      *)
(* admin)): the handlers are tried in the order of registration and the    *)
(* first whose filters pass takes the update.  The texts of the buttons    *)
(* are written in English: "Add product" is 'Добавить товар',              *)
(* "Add/change banner" is 'Добавить/изменить баннер', "cancel" is          *)
(* 'отмена', "back" is 'назад'.  The texts the user router takes in every  *)
(* state (users.py:12-96) and 'Ассортимент' (admin.py:139) change no state *)
(* and are not sent.                                                       *)
(***************************************************************************)
\* str.casefold() on the texts the model sends
casefold(text) ==
    IF text = "Cancel" THEN "cancel"
    ELSE IF text = "Back" THEN "back"
    ELSE text

\* Variant: add_product is registered without StateFilter(None).
MessageHandler_AddProductInAnyState(st, text) ==
    IF st = NoState /\ text = "Add/change banner" THEN "add_content_for_banner"
    ELSE IF text = "Add product" THEN "add_product"
    ELSE IF casefold(text) = "cancel" THEN "cancel"
    ELSE IF casefold(text) = "back" THEN "back_step"
    ELSE IF st = AllStates[1] THEN "add_name"
    ELSE IF st = AllStates[2] THEN "add_description"
    ELSE IF st = AllStates[4] THEN "add_price"
    ELSE IF st = AllStates[5] THEN "add_quantity"
    ELSE IF st = AllStates[6] /\ text = "." THEN "add_image"
    ELSE "none"

\* the handler that takes a text message of an administrator whose chat is
\* in state st (admin.py:204, 280, 299, 323, 353, 377, 423, 456, 489)
MessageHandler(st, text) ==
    IF st = NoState /\ text = "Add/change banner" THEN "add_content_for_banner"
    ELSE IF st = NoState /\ text = "Add product" THEN "add_product"
    ELSE IF casefold(text) = "cancel" THEN "cancel"
    ELSE IF casefold(text) = "back" THEN "back_step"
    ELSE IF st = AllStates[1] THEN "add_name"
    ELSE IF st = AllStates[2] THEN "add_description"
    ELSE IF st = AllStates[4] THEN "add_price"
    ELSE IF st = AllStates[5] THEN "add_quantity"
    ELSE IF st = AllStates[6] /\ text = "." THEN "add_image"
    ELSE "none"

\* the handler that takes a photo (admin.py:226, 489)
PhotoHandler(st) ==
    IF st = BannerImage THEN "add_banner"
    ELSE IF st = AllStates[6] THEN "add_image"
    ELSE "none"

\* callback payloads of the buttons under a product (admin.py:179-180)
DeleteData(id) == "delete_" \o ToString(id)
ChangeData(id) == "change_" \o ToString(id)

\* ids the table product has handed out
ButtonIds == 1..MaxProductId

\* F.data.startswith(prefix)
startswith(data, prefix) == \E id \in ButtonIds : data = prefix \o ToString(id)

\* int(callback.data.split("_")[-1])
split(data, prefix) == CHOOSE id \in ButtonIds : data = prefix \o ToString(id)

\* the handler that takes a callback query (admin.py:157, 184, 254, 405);
\* the router filters messages only (admin.py:24)
CallbackHandler(st, data) ==
    IF startswith(data, "category_") THEN "look_at_product"
    ELSE IF startswith(data, "delete_") THEN "delete_product_callback"
    ELSE IF st = NoState /\ startswith(data, "change_") THEN "change_product_callback"
    ELSE IF st = AllStates[3] THEN "category_choice_callback"
    ELSE "none"

\* Variant: the filter lets every chat pass.
IsAdmin_Everyone(user_id) == TRUE

\* admin_fil.py:7-12 with the list of admin.py:23-24: the model's allow-list
\* holds the ids of Operators, every other chat is outside of it
IsAdmin(user_id) == user_id \in Operators

\* admin.py:24: the filter of the router stands before every message handler
\* and before no callback handler; a message of a chat outside the allow-list
\* reaches no handler of the router
AdminMessage(user_id, text) ==
    IF IsAdmin(user_id) THEN MessageHandler(fsmState[user_id], text) ELSE "none"

AdminPhoto(user_id) ==
    IF IsAdmin(user_id) THEN PhotoHandler(fsmState[user_id]) ELSE "none"

(***************************************************************************)
(* The statements of the handlers on the FSM storage and on the tables.    *)
(***************************************************************************)
\* Variant: the storage keeps one state for all chats.
set_state_AllChats(fsm, user_id, st) == [o \in DOMAIN fsm |-> st]

\* state.set_state(st) in the chat of user_id
set_state(fsm, user_id, st) == [fsm EXCEPT ![user_id] = st]

\* state.set_data(d) in the chat of user_id
set_data(fsm, user_id, d) == [fsm EXCEPT ![user_id] = d]

\* state.update_data(key=value)
update_data(d, key, value) == [d EXCEPT ![key] = value]

\* texts of the model that int() and float() take, and their values
Numeral == ("1" :> 1) @@ ("2" :> 2) @@ ("-5" :> (0 - 5))

\* float(v) and int(v) raise no ValueError
IsNumber(v) == v.kind = "num" \/ (v.kind = "str" /\ v.text \in DOMAIN Numeral)

\* float(v), int(v)
Number(v) == IF v.kind = "num" THEN v.num ELSE Numeral[v.text]

\* orm_add_product and orm_update_product raise: KeyError for a key the data
\* lacks, ValueError for a text that is no number (requests.py:144-151,
\* 215-222)
Raises(d) ==
    \/ \E f \in DOMAIN d : d[f] = Unset
    \/ ~IsNumber(d["price"])
    \/ ~IsNumber(d["quantity"])
    \/ ~IsNumber(d["category"])

\* the row both functions write
Values(d) ==
    Product(d["name"].text, d["description"].text, Number(d["price"]),
            Number(d["quantity"]), d["image"].text, Number(d["category"]))

\* Variant: the INSERT leaves the quantity at 0.
orm_add_product_NoQuantity(prod, id, d) ==
    prod @@ (id :> [Values(d) EXCEPT !.quantity = 0])

\* requests.py:122-153, INSERT INTO product
orm_add_product(prod, id, d) == prod @@ (id :> Values(d))

\* requests.py:194-225, UPDATE product SET ... WHERE id = product_id
orm_update_product(prod, product_id, d) ==
    [p \in DOMAIN prod |-> IF p = product_id THEN Values(d) ELSE prod[p]]

\* requests.py:228-243, DELETE FROM product WHERE id = product_id
orm_delete_product(prod, product_id) ==
    [p \in DOMAIN prod \ {product_id} |-> prod[p]]

\* models.py:133, ondelete='CASCADE': the cart lines of a deleted product
Cascade(c, product_id) == {r \in c : r.product_id # product_id}

\* Variant: UPDATE banner SET image = image, without the WHERE clause.
orm_change_banner_image_AllBanners(b, name, image) == [x \in DOMAIN b |-> image]

\* requests.py:69-85, UPDATE banner SET image = image WHERE name = name
orm_change_banner_image(b, name, image) ==
    [x \in DOMAIN b |-> IF x = name THEN image ELSE b[x]]

\* message.caption of a photo sent without caption
NoCaption == "<None>"

\* str.strip() on the captions the model sends
strip(caption) == IF caption = " catalog " THEN "catalog" ELSE caption

\* message.photo[-1].file_id of the photos the model sends
FileId == "f"

(***************************************************************************)
(* What a handler makes of the dialogue of its chat: the state and the     *)
(* data of the chat and the product being changed.                         *)
(***************************************************************************)
Dialogue(st, d, target) == [state |-> st, data |-> d, target |-> target]

\* the value a step stores: the attribute of the product being changed for
\* "." when there is one, the text of the message otherwise
\* (admin.py:369-372, 395-398)
Stored(text, target, attribute) ==
    IF text = "." /\ target # NoProduct THEN attribute ELSE Text(text)

\* Variant: the product being changed stays.
Cancel_KeepsTarget(st, d, target) ==
    IF st = NoState THEN Dialogue(st, d, target)
    ELSE Dialogue(NoState, NoData, target)

\* Variant: the state is reset and the collected data are kept.
Cancel_KeepsData(st, d, target) ==
    IF st = NoState THEN Dialogue(st, d, target)
    ELSE Dialogue(NoState, d, NoProduct)

\* admin.py:313-320
Cancel(st, d, target) ==
    IF st = NoState THEN Dialogue(st, d, target)
    ELSE Dialogue(NoState, NoData, NoProduct)

\* Variant: the dialogue starts again at the first state.
BackStep_ToName(st, d, target) ==
    IF StepOf(st) > 1 THEN Dialogue(AllStates[1], d, target)
    ELSE Dialogue(st, d, target)

\* admin.py:338-350: at the first state nothing, at another state of
\* AddProduct the state before it, at any other state the loop finds nothing
BackStep(st, d, target) ==
    IF st = AllStates[1] THEN Dialogue(st, d, target)
    ELSE IF StepOf(st) > 1 THEN Dialogue(AllStates[StepOf(st) - 1], d, target)
    ELSE Dialogue(st, d, target)

\* Variant: the name goes straight to the category.
AddName_SkipsDescription(text, d, target) ==
    Dialogue(AllStates[3], update_data(d, "name", Stored(text, target, Text(target.name))),
             target)

\* admin.py:369-374
AddName(text, d, target) ==
    Dialogue(AllStates[2], update_data(d, "name", Stored(text, target, Text(target.name))),
             target)

\* admin.py:395-402
AddDescription(text, d, target) ==
    Dialogue(AllStates[3],
             update_data(d, "description", Stored(text, target, Text(target.description))),
             target)

\* admin.py:417-420
CategoryChoice(data, d, target) ==
    Dialogue(AllStates[4], update_data(d, "category", Text(data)), target)

\* admin.py:440-453
AddPrice(text, st, d, target) ==
    IF text = "." /\ target # NoProduct
    THEN Dialogue(AllStates[5], update_data(d, "price", Num(target.price)), target)
    ELSE IF ~IsNumber(Text(text)) THEN Dialogue(st, d, target)
    ELSE Dialogue(AllStates[5], update_data(d, "price", Text(text)), target)

\* admin.py:473-486
AddQuantity(text, st, d, target) ==
    IF text = "." /\ target # NoProduct
    THEN Dialogue(AllStates[6], update_data(d, "quantity", Num(target.quantity)), target)
    ELSE IF ~IsNumber(Text(text)) THEN Dialogue(st, d, target)
    ELSE Dialogue(AllStates[6], update_data(d, "quantity", Text(text)), target)

\* admin.py:507-511: the data after the update of the last step
ImageData(kind, text, d, target) ==
    IF kind = "text" /\ text = "." /\ target # NoProduct
    THEN update_data(d, "image", Text(target.image))
    ELSE IF kind = "photo" THEN update_data(d, "image", Text(FileId))
    ELSE d

\* the handler writes the dialogue of the chat of user_id
Write(user_id, dlg) ==
    /\ fsmState' = set_state(fsmState, user_id, dlg.state)
    /\ fsmData' = set_data(fsmData, user_id, dlg.data)
    /\ product_for_change' = dlg.target
    /\ chosen' = IF dlg.state = NoState THEN [chosen EXCEPT ![user_id] = NoChoice] ELSE chosen

\* an entry handler writes the dialogue of the chat of user_id
Enter(user_id, dlg, choice) ==
    /\ fsmState' = set_state(fsmState, user_id, dlg.state)
    /\ fsmData' = set_data(fsmData, user_id, dlg.data)
    /\ product_for_change' = dlg.target
    /\ chosen' = [chosen EXCEPT ![user_id] = choice]

\* what the dialogues leave alone
cartVars == <<cart, nextId, start, last, before, calls, pc, arg, loaded, ret, lock, libVars>>

(***************************************************************************)
(* The handlers.  Every action is one update taken by one handler.         *)
(***************************************************************************)
\* admin.py:204-223
add_content_for_banner(user_id, text) ==
    /\ AdminMessage(user_id, text) = "add_content_for_banner"
    /\ fsmState' = set_state(fsmState, user_id, BannerImage)
    /\ event' = Event("add_content_for_banner", user_id, "text", text, "done")
    /\ UNCHANGED <<product, nextProductId, banner, fsmData, product_for_change, chosen, cartVars>>

\* admin.py:226-251
add_banner(user_id, caption) ==
    /\ AdminPhoto(user_id) = "add_banner"
    /\ IF caption = NoCaption
       THEN /\ event' = Event("add_banner", user_id, "photo", caption, "raise")
            /\ UNCHANGED <<banner, fsmState, fsmData>>
       ELSE IF strip(caption) \notin BannerNames
       THEN /\ event' = Event("add_banner", user_id, "photo", caption, "return")
            /\ UNCHANGED <<banner, fsmState, fsmData>>
       ELSE /\ banner' = orm_change_banner_image(banner, strip(caption), FileId)
            /\ fsmState' = set_state(fsmState, user_id, NoState)
            /\ fsmData' = set_data(fsmData, user_id, NoData)
            /\ event' = Event("add_banner", user_id, "photo", caption, "done")
    /\ UNCHANGED <<product, nextProductId, product_for_change, chosen, cartVars>>

\* admin.py:151-181: the products of the category are sent to the chat, each
\* with its buttons delete_<id> and change_<id>; nothing is written
look_at_product(user_id, data) ==
    /\ CallbackHandler(fsmState[user_id], data) = "look_at_product"
    /\ event' = Event("look_at_product", user_id, "callback", data, "done")
    /\ UNCHANGED <<product, nextProductId, banner, fsmState, fsmData, product_for_change,
                   chosen, cartVars>>

\* admin.py:184-201
delete_product_callback(user_id, data) ==
    /\ CallbackHandler(fsmState[user_id], data) = "delete_product_callback"
    /\ product' = orm_delete_product(product, split(data, "delete_"))
    /\ cart' = Cascade(cart, split(data, "delete_"))
    /\ event' = Event("delete_product_callback", user_id, "callback", data, "done")
    /\ UNCHANGED <<nextProductId, banner, fsmState, fsmData, product_for_change, chosen>>
    /\ UNCHANGED <<nextId, start, last, before, calls, pc, arg, loaded, ret, lock, libVars>>

\* admin.py:254-277
change_product_callback(user_id, data) ==
    /\ CallbackHandler(fsmState[user_id], data) = "change_product_callback"
    /\ Enter(user_id, Dialogue(AllStates[1], fsmData[user_id],
                               orm_get_product(product, split(data, "change_"))),
             Choice("change", split(data, "change_")))
    /\ event' = Event("change_product_callback", user_id, "callback", data, "done")
    /\ UNCHANGED <<product, nextProductId, banner, cartVars>>

\* admin.py:280-296
add_product(user_id, text) ==
    /\ AdminMessage(user_id, text) = "add_product"
    /\ Enter(user_id, Dialogue(AllStates[1], fsmData[user_id], product_for_change),
             Choice("add", 0))
    /\ event' = Event("add_product", user_id, "text", text, "done")
    /\ UNCHANGED <<product, nextProductId, banner, cartVars>>

\* admin.py:299-320
cancel(user_id, text) ==
    /\ AdminMessage(user_id, text) = "cancel"
    /\ Write(user_id, Cancel(fsmState[user_id], fsmData[user_id], product_for_change))
    /\ event' = Event("cancel", user_id, "text", text,
                      IF fsmState[user_id] = NoState THEN "return" ELSE "done")
    /\ UNCHANGED <<product, nextProductId, banner, cartVars>>

\* admin.py:323-350
back_step(user_id, text) ==
    /\ AdminMessage(user_id, text) = "back_step"
    /\ Write(user_id, BackStep(fsmState[user_id], fsmData[user_id], product_for_change))
    /\ event' = Event("back_step", user_id, "text", text,
                      IF StepOf(fsmState[user_id]) > 1 THEN "done" ELSE "return")
    /\ UNCHANGED <<product, nextProductId, banner, cartVars>>

\* admin.py:353-374
add_name(user_id, text) ==
    /\ AdminMessage(user_id, text) = "add_name"
    /\ Write(user_id, AddName(text, fsmData[user_id], product_for_change))
    /\ event' = Event("add_name", user_id, "text", text, "done")
    /\ UNCHANGED <<product, nextProductId, banner, cartVars>>

\* admin.py:377-402
add_description(user_id, text) ==
    /\ AdminMessage(user_id, text) = "add_description"
    /\ Write(user_id, AddDescription(text, fsmData[user_id], product_for_change))
    /\ event' = Event("add_description", user_id, "text", text, "done")
    /\ UNCHANGED <<product, nextProductId, banner, cartVars>>

\* admin.py:405-420
category_choice_callback(user_id, data) ==
    /\ CallbackHandler(fsmState[user_id], data) = "category_choice_callback"
    /\ Write(user_id, CategoryChoice(data, fsmData[user_id], product_for_change))
    /\ event' = Event("category_choice_callback", user_id, "callback", data, "done")
    /\ UNCHANGED <<product, nextProductId, banner, cartVars>>

\* admin.py:423-453
add_price(user_id, text) ==
    /\ AdminMessage(user_id, text) = "add_price"
    /\ LET dlg == AddPrice(text, fsmState[user_id], fsmData[user_id], product_for_change) IN
        /\ Write(user_id, dlg)
        /\ event' = Event("add_price", user_id, "text", text,
                          IF dlg.state = fsmState[user_id] THEN "return" ELSE "done")
    /\ UNCHANGED <<product, nextProductId, banner, cartVars>>

\* admin.py:456-486
add_quantity(user_id, text) ==
    /\ AdminMessage(user_id, text) = "add_quantity"
    /\ LET dlg == AddQuantity(text, fsmState[user_id], fsmData[user_id], product_for_change) IN
        /\ Write(user_id, dlg)
        /\ event' = Event("add_quantity", user_id, "text", text,
                          IF dlg.state = fsmState[user_id] THEN "return" ELSE "done")
    /\ UNCHANGED <<product, nextProductId, banner, cartVars>>

\* admin.py:489-519: the image is stored, then the product being changed is
\* updated or, when there is none, a product is added; an exception of the
\* database function leaves the handler before state.clear()
add_image(user_id, kind, text) ==
    /\ IF kind = "photo"
       THEN AdminPhoto(user_id) = "add_image"
       ELSE AdminMessage(user_id, text) = "add_image"
    /\ LET d == ImageData(kind, text, fsmData[user_id], product_for_change) IN
       IF Raises(d)
       THEN /\ Write(user_id, Dialogue(fsmState[user_id], d, product_for_change))
            /\ event' = Event("add_image", user_id, kind, text, "raise")
            /\ UNCHANGED <<product, nextProductId>>
       ELSE IF product_for_change # NoProduct
       THEN /\ product' = orm_update_product(product, product_for_change.id, d)
            /\ Write(user_id, Dialogue(NoState, NoData, NoProduct))
            /\ event' = Event("add_image", user_id, kind, text, "done")
            /\ UNCHANGED nextProductId
       ELSE /\ nextProductId <= MaxProductId
            /\ product' = orm_add_product(product, nextProductId, d)
            /\ nextProductId' = nextProductId + 1
            /\ Write(user_id, Dialogue(NoState, NoData, NoProduct))
            /\ event' = Event("add_image", user_id, kind, text, "done")
    /\ UNCHANGED <<banner, cartVars>>

\* no handler takes the update: the dispatcher drops it
unhandled(user_id, kind, text) ==
    /\ IF kind = "photo" THEN AdminPhoto(user_id) = "none"
       ELSE IF kind = "callback" THEN CallbackHandler(fsmState[user_id], text) = "none"
       ELSE AdminMessage(user_id, text) = "none"
    /\ event' = Event("none", user_id, kind, text, "none")
    /\ UNCHANGED <<product, nextProductId, banner, fsmState, fsmData, product_for_change,
                   chosen, cartVars>>

(***************************************************************************)
(* SpecWizard: the administrator of the allow-list at work, one update     *)
(* after the other, on a shop that starts without products.                *)
(***************************************************************************)
\* admin.py:23 lists one id: the administrator who works alone
admins == {1}

\* the updates the model sends
Names == {".", "a", "Back"}
Descriptions == {".", "a", "cancel"}
Prices == {".", "a", "2", "Add product"}
Quantities == {".", "a", "2", "-5", "Add/change banner"}
Categories == {"1"}
Triggers == {"Add product", "Add/change banner"}
Callbacks == Categories \cup {ChangeData(id) : id \in ButtonIds}

EmptyShop ==
    /\ product = <<>>
    /\ nextProductId = 1
    /\ cart = {}
    /\ nextId = 1
    /\ start = Snapshot
    /\ last = Op("none", 0, 0, "None", <<>>)
    /\ before = Snapshot
    /\ calls = [p \in ProductIds |-> 0]
    /\ pc = Idle
    /\ arg = NoArg
    /\ loaded = NoLoaded
    /\ ret = NoRet
    /\ lock = NoLock
    /\ NoSession

InitWizard == EmptyShop /\ NoCall

\* the buttons under the products that were stored at some time
Shown == {id \in ButtonIds : id < nextProductId}

NextWizard ==
    \/ \E o \in admins, text \in Triggers : add_content_for_banner(o, text)
    \/ \E o \in admins, id \in Shown : delete_product_callback(o, DeleteData(id))
    \/ \E o \in admins, id \in Shown : change_product_callback(o, ChangeData(id))
    \/ \E o \in admins, text \in Triggers : add_product(o, text)
    \/ \E o \in admins : cancel(o, "cancel")
    \/ \E o \in admins : back_step(o, "Back")
    \/ \E o \in admins, text \in Names : add_name(o, text)
    \/ \E o \in admins, text \in Descriptions : add_description(o, text)
    \/ \E o \in admins, data \in Callbacks : category_choice_callback(o, data)
    \/ \E o \in admins, text \in Prices : add_price(o, text)
    \/ \E o \in admins, text \in Quantities : add_quantity(o, text)
    \/ \E o \in admins : add_image(o, "photo", "")
    \/ \E o \in admins : add_image(o, "text", ".")
    \/ \E o \in admins : unhandled(o, "text", "Add product")
    \/ \E o \in admins, id \in Shown : unhandled(o, "callback", ChangeData(id))

SpecWizard == InitWizard /\ [][NextWizard]_vars

(***************************************************************************)
(* Properties of the dialogues.                                            *)
(***************************************************************************)
\* C11: in every reachable state every stored product has a quantity of at
\* least 0.
C11_QuantityNeverNegative ==
    \A p \in DOMAIN product : product[p].quantity >= 0

\* the attribute of the product being changed that the step of a key copies
Attribute(target, key) ==
    IF key = "name" THEN Text(target.name)
    ELSE IF key = "description" THEN Text(target.description)
    ELSE IF key = "price" THEN Num(target.price)
    ELSE IF key = "quantity" THEN Num(target.quantity)
    ELSE Text(target.image)

\* the data d with the value v under the key of step i
StoredAt(d, i, v) == [d EXCEPT ![Fields[i]] = v]

\* the rows of the table q that the table p lacks or has with other values
Written(p, q) == {id \in DOMAIN q : id \notin DOMAIN p \/ p[id] # q[id]}

\* the handlers of the steps that store one value and go on
StepHandlers ==
    {"add_name", "add_description", "category_choice_callback", "add_price", "add_quantity"}

\* C12: the steps of the product dialogue are passed in the order name,
\* description, category, price, quantity, image: no update moves a chat
\* forward by more than one step, an update that moves a chat from a step to
\* the next stores a value under the key of that step and changes no other
\* key, an update a step handler accepts moves to the next step, and a row
\* of product is written only by add_image at the step image.
C12_StepsInOrder ==
    [][\A o \in Operators :
        LET i == StepOf(fsmState[o])
            j == StepOf(fsmState'[o]) IN
        /\ j > i => j = i + 1
        /\ (i >= 1 /\ j = i + 1) =>
              /\ fsmData'[o][Fields[i]] # Unset
              /\ fsmData'[o] = StoredAt(fsmData[o], i, fsmData'[o][Fields[i]])
              /\ fsmData'[o][Fields[i]] \in
                    {Text(event'.text), Attribute(product_for_change, Fields[i])}
        /\ (event'.user_id = o /\ event'.handler \in StepHandlers /\ event'.result = "done")
              => (i >= 1 /\ j = i + 1)
        /\ (event'.user_id = o /\ Written(product, product') # {})
              => (event'.handler = "add_image" /\ i = 6)]_vars

\* a dialogue went through all steps and its last update stored a product
C12_Witness ==
    /\ event.handler = "add_image"
    /\ event.result = "done"
    /\ DOMAIN product # {}
    /\ fsmState[event.user_id] = NoState

\* the row made of the collected values d and an image
Collected(d, image) ==
    Product(d["name"].text, d["description"].text, Number(d["price"]),
            Number(d["quantity"]), image, Number(d["category"]))

\* the image of the row written by a commit: the photo of the update, the
\* image of the product being changed or the image stored before
Images(d, target) == {FileId, target.image, d["image"].text}

\* after the commit the chat is in no dialogue and no product is being changed
Reset(o) ==
    /\ fsmState'[o] = NoState
    /\ fsmData'[o] = NoData
    /\ product_for_change' = NoProduct

\* the update created exactly one product from the data of chat o
Created(o) ==
    \E id \in DOMAIN product' \ DOMAIN product :
        /\ product' = product @@ (id :> product'[id])
        /\ product'[id].image \in Images(fsmData[o], product_for_change)
        /\ product'[id] = Collected(fsmData[o], product'[id].image)

\* the update wrote the data of chat o into the row id and changed nothing else
Updated(o, id) ==
    /\ id \in DOMAIN product
    /\ product' = [product EXCEPT ![id] = product'[id]]
    /\ product'[id].image \in Images(fsmData[o], product_for_change)
    /\ product'[id] = Collected(fsmData[o], product'[id].image)

\* the update is an input of chat o that add_image accepted
Committed(o) ==
    event'.user_id = o /\ event'.handler = "add_image" /\ event'.result = "done"

\* C13 as stated: an input accepted at step image updates the product being
\* changed with all collected values and creates none, or, when no product
\* is being changed, creates exactly one product from them; afterwards the
\* chat is in no dialogue, has no data and no product is being changed.
C13_CommitUpdatesTarget ==
    [][\A o \in Operators : Committed(o) =>
        /\ IF product_for_change # NoProduct
           THEN Updated(o, product_for_change.id)
           ELSE Created(o)
        /\ Reset(o)]_vars

\* C13 amended: as C13, but a product being changed whose row was deleted
\* in the meantime is not updated: then the table product stays as it is.
C13_CommitUpdatesStoredTarget ==
    [][\A o \in Operators : Committed(o) =>
        /\ IF product_for_change # NoProduct
           THEN IF product_for_change.id \in DOMAIN product
                THEN Updated(o, product_for_change.id)
                ELSE product' = product
           ELSE Created(o)
        /\ Reset(o)]_vars

\* an input was accepted at step image while the row of the product being
\* changed was deleted: one product was stored before, none is now
C13_Witness ==
    /\ event.handler = "add_image"
    /\ event.result = "done"
    /\ nextProductId > 1
    /\ DOMAIN product = {}

\* the steps that take "." for the value of the product being changed
SentinelSteps == {1, 2, 4, 5, 6}

\* the update is the text "." sent by chat o at a step of SentinelSteps
Sentinel(o) ==
    /\ event'.user_id = o
    /\ event'.kind = "text"
    /\ event'.text = "."
    /\ StepOf(fsmState[o]) \in SentinelSteps
    /\ event'.handler \in {"add_name", "add_description", "add_price", "add_quantity",
                           "add_image"}

\* C14: at the steps name, description, price, quantity and image the text
\* "." with a product being changed stores that product's value of the field
\* unchanged and the dialogue goes on: to the next step, and at the step
\* image to the commit.
C14_KeepsTargetValue ==
    [][\A o \in Operators : (Sentinel(o) /\ product_for_change # NoProduct) =>
        LET i == StepOf(fsmState[o]) IN
        IF i < 6
        THEN /\ fsmData'[o] = StoredAt(fsmData[o], i, Attribute(product_for_change, Fields[i]))
             /\ fsmState'[o] = AllStates[i + 1]
        ELSE /\ event'.result = "done"
             /\ fsmState'[o] = NoState
             /\ product_for_change.id \in DOMAIN product =>
                    product'[product_for_change.id].image = product_for_change.image]_vars

\* C15: at the steps name, description, price, quantity and image the text
\* "." with no product being changed is rejected: the state of the chat
\* stays, no value is stored and no product is written.
C15_SentinelRejected ==
    [][\A o \in Operators : (Sentinel(o) /\ product_for_change = NoProduct) =>
        /\ fsmState'[o] = fsmState[o]
        /\ fsmData'[o] = fsmData[o]
        /\ product' = product]_vars

\* the text is a number that is at least 0
NonNegative(text) == text \in DOMAIN Numeral /\ Numeral[text] >= 0

\* C16: at the step price a text that is no non-negative number, and at the
\* step quantity a text that is no non-negative integer ("-5" included),
\* leaves the state and the data of the chat unchanged ("." with a product
\* being changed is the keep-default input of C14, not such a text).
C16_InvalidNumberRejected ==
    [][\A o \in Operators :
        (/\ event'.user_id = o
         /\ event'.handler \in {"add_price", "add_quantity"}
         /\ ~NonNegative(event'.text)
         /\ ~(event'.text = "." /\ product_for_change # NoProduct)) =>
        /\ fsmState'[o] = fsmState[o]
        /\ fsmData'[o] = fsmData[o]]_vars

\* the texts that are the word of back_step
BackTokens == {"back", "Back"}

\* C17: "back" at a step after the first sets the state of the chat to the
\* step before and changes neither the data nor the product being changed
\* nor a table; at the step name it changes nothing; no key of the data ever
\* holds the word itself.
C17_BackOneStep ==
    [][\A o \in Operators :
        /\ (event'.user_id = o /\ event'.handler = "back_step"
            /\ StepOf(fsmState[o]) >= 1) =>
              /\ fsmState'[o] = IF StepOf(fsmState[o]) > 1
                                THEN AllStates[StepOf(fsmState[o]) - 1]
                                ELSE fsmState[o]
              /\ fsmData' = fsmData
              /\ product_for_change' = product_for_change
              /\ product' = product
        /\ (event'.user_id = o /\ event'.text \in BackTokens) =>
              event'.handler = "back_step"
        /\ \A i \in DOMAIN Fields : fsmData'[o][Fields[i]].text \notin BackTokens]_vars

\* "back" at the step image: the chat is at the step quantity and still has
\* the quantity it stored
C17_Witness ==
    /\ event.handler = "back_step"
    /\ event.result = "done"
    /\ fsmState[event.user_id] = AllStates[5]
    /\ fsmData[event.user_id]["quantity"] # Unset

\* the texts that are the word of cancel
CancelTokens == {"cancel", "Cancel"}

\* C18: "cancel" at a step of the product dialogue or at the step of the
\* banner dialogue is taken by cancel and leaves the chat in no dialogue,
\* with no data and no product being changed, and writes neither table;
\* in a chat that is in no dialogue it changes nothing.
C18_CancelClears ==
    [][\A o \in Operators :
        /\ (event'.user_id = o /\ event'.text \in CancelTokens) =>
              event'.handler = "cancel"
        /\ (event'.user_id = o /\ event'.handler = "cancel") =>
              IF fsmState[o] # NoState
              THEN /\ fsmState'[o] = NoState
                   /\ fsmData'[o] = NoData
                   /\ product_for_change' = NoProduct
                   /\ product' = product
                   /\ banner' = banner
              ELSE UNCHANGED <<fsmState, fsmData, product_for_change, product, banner>>]_vars

\* a dialogue that had a product stored before was cancelled
C18_Witness ==
    /\ event.handler = "cancel"
    /\ event.result = "done"
    /\ fsmState[event.user_id] = NoState
    /\ fsmData[event.user_id] = NoData
    /\ product_for_change = NoProduct
    /\ DOMAIN product # {}

\* the handlers that start a dialogue and the state each of them sets
EntryHandlers == {"add_product", "add_content_for_banner", "change_product_callback"}

FirstState(handler) == IF handler = "add_content_for_banner" THEN BannerImage ELSE AllStates[1]

\* the update carries the text of an entry button or the payload change_<id>
IsTrigger(e) ==
    \/ e.kind = "text" /\ e.text \in Triggers
    \/ e.kind = "callback" /\ startswith(e.text, "change_")

\* C19: "Add product", "Add/change banner" and change_<id> start a dialogue,
\* at its first state, only in a chat that is in no dialogue; received in a
\* chat that is in a dialogue they do not set the state back to a first
\* state and do not replace the product being changed.
C19_EntryOnlyFromNone ==
    [][\A o \in Operators :
        /\ (event'.user_id = o /\ event'.handler \in EntryHandlers) =>
              /\ fsmState[o] = NoState
              /\ fsmState'[o] = FirstState(event'.handler)
        /\ (event'.user_id = o /\ IsTrigger(event') /\ fsmState[o] # NoState) =>
              /\ event'.handler \notin EntryHandlers
              /\ product_for_change' = product_for_change
              /\ fsmState'[o] \in {AllStates[1], BannerImage} =>
                    (fsmState'[o] = fsmState[o] /\ fsmData'[o] = fsmData[o])]_vars

\* "Add product" was received at the step price of a dialogue that changes a
\* product: the chat is still at that step and the product is still the one
\* being changed
C19_Witness ==
    /\ event.text = "Add product"
    /\ event.handler = "add_price"
    /\ fsmState[event.user_id] = AllStates[4]
    /\ product_for_change # NoProduct

(***************************************************************************)
(* SpecOperators: the chats of several administrators in dialogue at the   *)
(* same time, their updates handled one after the other in any order.      *)
(***************************************************************************)
NextOperators ==
    \/ \E o \in Operators : add_content_for_banner(o, "Add/change banner")
    \/ \E o \in Operators, id \in Shown : change_product_callback(o, ChangeData(id))
    \/ \E o \in Operators : add_product(o, "Add product")
    \/ \E o \in Operators : cancel(o, "cancel")
    \/ \E o \in Operators : back_step(o, "back")
    \/ \E o \in Operators : add_name(o, "a")
    \/ \E o \in Operators : add_description(o, "a")
    \/ \E o \in Operators : category_choice_callback(o, "1")
    \/ \E o \in Operators : add_price(o, "2")
    \/ \E o \in Operators : add_quantity(o, "2")
    \/ \E o \in Operators : add_image(o, "photo", "")

SpecOperators == InitWizard /\ [][NextOperators]_vars

\* C20: the state and the data of the FSM storage are kept per chat: an
\* update of one chat changes neither the state nor the data of another.
C20_DialoguesArePerChat ==
    [][\A o \in Operators : event'.user_id # o =>
        /\ fsmState'[o] = fsmState[o]
        /\ fsmData'[o] = fsmData[o]]_vars

\* two chats are in a dialogue at different steps, each with data of its own
C20_Witness ==
    \E a, b \in Operators :
        /\ fsmState[a] = AllStates[6]
        /\ fsmState[b] = AllStates[2]
        /\ fsmData[a]["quantity"] # Unset
        /\ fsmData[b]["quantity"] = Unset
        /\ event.user_id = b

\* C21: with several operators in the product dialogue, a commit acts on what
\* the committing chat chose on entry: a chat that entered with "Add product"
\* creates a product, a chat that entered with change_<id> updates the
\* product <id>, whatever the other chats do in between.
C21_CommitActsOnOwnChoice ==
    [][\A o \in Operators : Committed(o) =>
        /\ chosen[o].kind = "add" => Created(o)
        /\ chosen[o].kind = "change" => Updated(o, chosen[o].id)]_vars

(***************************************************************************)
(* SpecBanner: the administrators change banners.                          *)
(***************************************************************************)
\* the captions of the photos the model sends
Captions == {NoCaption, "catalog", " catalog ", "main", "x"}

NextBanner ==
    \/ \E o \in Operators : add_content_for_banner(o, "Add/change banner")
    \/ \E o \in Operators, caption \in Captions : add_banner(o, caption)
    \/ \E o \in Operators : cancel(o, "cancel")
    \/ \E o \in Operators : unhandled(o, "photo", "")

SpecBanner == InitWizard /\ [][NextBanner]_vars

\* the update is a photo of chat o taken in the banner step
BannerPhoto(o) == event'.user_id = o /\ event'.handler = "add_banner"

\* the photo set the image of the banner name and of no other banner, and
\* the chat is in no dialogue afterwards
BannerSet(o, name) ==
    /\ banner'[name] = FileId
    /\ \A x \in BannerNames \ {name} : banner'[x] = banner[x]
    /\ fsmState'[o] = NoState
    /\ fsmData'[o] = NoData

\* the photo changed no banner and the chat stays in the banner step
BannerKept(o) ==
    /\ banner' = banner
    /\ fsmState'[o] = BannerImage
    /\ fsmData'[o] = fsmData[o]

\* C22 as stated: in the banner step a photo whose caption is not the name
\* of a banner leaves the chat in the banner step and changes no banner; a
\* photo whose caption is the name of a banner sets the image of that
\* banner and of no other, and the chat is in no dialogue afterwards.
C22_CaptionIsName ==
    [][\A o \in Operators : BannerPhoto(o) =>
        IF event'.text \in BannerNames
        THEN BannerSet(o, event'.text)
        ELSE BannerKept(o)]_vars

\* C22 amended: as C22, with the caption taken without the white space
\* around it.
C22_StrippedCaptionIsName ==
    [][\A o \in Operators : BannerPhoto(o) =>
        IF event'.text # NoCaption /\ strip(event'.text) \in BannerNames
        THEN BannerSet(o, strip(event'.text))
        ELSE BannerKept(o)]_vars

\* a photo with white space around the name of a banner set that banner
\* and left the other one as it was
C22_Witness ==
    /\ event.handler = "add_banner"
    /\ event.text = " catalog "
    /\ event.result = "done"
    /\ banner["catalog"] = FileId
    /\ banner["main"] = NoImage
    /\ fsmState[event.user_id] = NoState

(***************************************************************************)
(* SpecVisitors: chats outside the allow-list send the updates of the      *)
(* administration to a shop with products, next to the administrators.     *)
(***************************************************************************)
Visitors == Chats \ Operators

\* callback payload of the buttons under a category (admin.py:146)
CategoryData(id) == "category_" \o ToString(id)

\* the updates a chat outside the allow-list sends
VisitorTexts == {"Add product", "Add/change banner", "cancel", "a"}
VisitorCallbacks ==
    {CategoryData(id) : id \in ButtonIds} \cup {DeleteData(id) : id \in ButtonIds}
        \cup {ChangeData(id) : id \in ButtonIds} \cup Categories

NextVisitors ==
    \/ \E v \in Visitors, text \in VisitorTexts : unhandled(v, "text", text)
    \/ \E v \in Visitors : unhandled(v, "photo", "")
    \/ \E v \in Visitors, data \in VisitorCallbacks : unhandled(v, "callback", data)
    \/ \E v \in Visitors, data \in VisitorCallbacks : look_at_product(v, data)
    \/ \E v \in Visitors, data \in VisitorCallbacks : delete_product_callback(v, data)
    \/ \E v \in Visitors, data \in VisitorCallbacks : change_product_callback(v, data)
    \/ \E o \in admins, id \in ButtonIds : change_product_callback(o, ChangeData(id))
    \/ \E o \in admins : add_product(o, "Add product")
    \/ \E o \in admins : add_name(o, "a")
    \/ \E o \in admins : cancel(o, "cancel")

SpecVisitors == Init /\ [][NextVisitors]_vars

\* C23: no update of the administration sent by a chat outside the
\* allow-list changes a product, a banner, a dialogue or the product being
\* changed.
C23_VisitorsChangeNothing ==
    [][event'.user_id \in Visitors =>
        UNCHANGED <<product, banner, fsmState, fsmData, product_for_change>>]_vars

\* C24: no input at a step of a dialogue ends in an unhandled error: the
\* handler accepts the input or prompts again and stays at the step.
C24_NoUnhandledError == event.result # "raise"

(***************************************************************************)
(* SpecPaginator: a Paginator is constructed from an array and a page and  *)
(* its methods are called.                                                 *)
(***************************************************************************)
MaxLen == 3
MaxItem == 2
Items == 1..MaxItem
Arrays == UNION {[1..n -> Items] : n \in 0..MaxLen}
Pages == (0 - 1)..(MaxLen + 1)

\* what the library leaves alone
appVars == <<product, cart, nextId, start, last, before, calls, pc, arg, loaded, ret, lock,
             wizVars, kbds>>

InitPaginator ==
    /\ EmptyShop
    /\ \E array \in Arrays, page \in Pages : args = [array |-> array, page |-> page]
    /\ paginator = NoPaginator
    /\ returned = NoResult
    /\ category = Seeded
    /\ kbds = NoKeyboards

\* Paginator(array, page): pag.py:26-44
Paginator_init ==
    /\ returned = NoResult
    /\ IF PaginatorError(args.array, args.page) # "none"
       THEN /\ returned' = Raised("__init__", PaginatorError(args.array, args.page))
            /\ UNCHANGED paginator
       ELSE /\ paginator' = Paginator(args.array, args.page)
            /\ returned' = Returned("__init__", None)
    /\ UNCHANGED <<args, category, appVars>>

\* the object exists
Constructed == returned.call # "none" /\ ~(returned.call = "__init__" /\ returned.kind = "raise")

get_item_call ==
    /\ Constructed
    /\ returned' = Returned("get_item", int(get_item(paginator)))
    /\ UNCHANGED <<args, paginator, category, appVars>>

has_next_call ==
    /\ Constructed
    /\ returned' = Returned("has_next", has_next(paginator))
    /\ UNCHANGED <<args, paginator, category, appVars>>

has_previous_call ==
    /\ Constructed
    /\ returned' = Returned("has_previous", has_previous(paginator))
    /\ UNCHANGED <<args, paginator, category, appVars>>

NextPaginator ==
    \/ Paginator_init
    \/ get_item_call
    \/ has_next_call
    \/ has_previous_call

SpecPaginator == InitPaginator /\ [][NextPaginator]_vars

\* C27: Paginator(S, p) fails exactly when S is empty, p < 1 or p > len(S),
\* and then with the error of the empty array whenever S is empty; for every
\* other S and p the object is constructed from S and p.
C27_ConstructionFailsExactly ==
    returned.call = "__init__" =>
        LET S == args.array
            p == args.page IN
        /\ returned.kind = "raise" <=> (S = <<>> \/ p < 1 \/ p > Len(S))
        /\ S = <<>> => returned.value = Error("ValueError: Array cannot be empty")
        /\ returned.kind = "return" => (paginator.array = S /\ paginator.page = p)

\* the construction failed on an empty array with a page below 1
C27_Witness ==
    /\ returned = Raised("__init__", "ValueError: Array cannot be empty")
    /\ args.array = <<>>
    /\ args.page < 1

\* C28: for a non-empty S and 1 <= p <= len(S), get_item() is S[p-1], pages
\* is len(S), has_next() is p+1 when p < len(S) and False otherwise,
\* has_previous() is p-1 when p > 1 and False otherwise, and no call
\* changes the object.
C28_MethodsOfThePage ==
    [][returned'.call \in {"get_item", "has_next", "has_previous"} =>
        LET S == args.array
            p == args.page IN
        /\ S # <<>> /\ 1 <= p /\ p <= Len(S)
        /\ paginator' = paginator
        /\ paginator.pages = Len(S)
        /\ returned'.kind = "return"
        /\ returned'.call = "get_item" => returned'.value = int(S[p])
        /\ returned'.call = "has_next" =>
                returned'.value = IF p < Len(S) THEN int(p + 1) ELSE False
        /\ returned'.call = "has_previous" =>
                returned'.value = IF p > 1 THEN int(p - 1) ELSE False]_vars

\* has_next() of the last of several pages returned False
C28_Witness ==
    /\ returned = Returned("has_next", False)
    /\ Len(args.array) > 1
    /\ args.page = Len(args.array)

(***************************************************************************)
(* SpecMultiplication: multiplication(quantity, price) of handlers/menu.py *)
(* is called with a quantity of any type and a price that is a number.     *)
(***************************************************************************)
MaxFactor == 3
Factors == (0 - MaxFactor)..MaxFactor
Quantity == {int(n) : n \in Factors}
               \cup {[type |-> "str", value |-> 0 - 1], [type |-> "float", value |-> 2], None}

\* isinstance(v, T)
isinstance(v, T) == v.type = T

\* Variant: the test of the price stands before the test of both.
multiplication_PriceFirst(quantity, price) ==
    IF ~isinstance(quantity, "int")
    THEN Raised("multiplication", "TypeError: Quantity must be an integer")
    ELSE IF price < 0
    THEN Raised("multiplication", "ValueError: Price cannot be negative")
    ELSE IF price < 0 /\ quantity.value < 0
    THEN Raised("multiplication", "ValueError: Both price and quantity cannot be negative")
    ELSE IF quantity.value < 0
    THEN Raised("multiplication", "ValueError: Quantity cannot be negative")
    ELSE Returned("multiplication", int(quantity.value * price))

\* menu.py:42-50
multiplication(quantity, price) ==
    IF ~isinstance(quantity, "int")
    THEN Raised("multiplication", "TypeError: Quantity must be an integer")
    ELSE IF price < 0 /\ quantity.value < 0
    THEN Raised("multiplication", "ValueError: Both price and quantity cannot be negative")
    ELSE IF price < 0
    THEN Raised("multiplication", "ValueError: Price cannot be negative")
    ELSE IF quantity.value < 0
    THEN Raised("multiplication", "ValueError: Quantity cannot be negative")
    ELSE Returned("multiplication", int(quantity.value * price))

InitMultiplication ==
    /\ EmptyShop
    /\ \E quantity \in Quantity, price \in Factors :
            args = [quantity |-> quantity, price |-> price]
    /\ paginator = NoPaginator
    /\ returned = NoResult
    /\ category = Seeded
    /\ kbds = NoKeyboards

multiplication_call ==
    /\ returned = NoResult
    /\ returned' = multiplication(args.quantity, args.price)
    /\ UNCHANGED <<args, paginator, category, appVars>>

NextMultiplication == multiplication_call

SpecMultiplication == InitMultiplication /\ [][NextMultiplication]_vars

\* C30: multiplication rejects a quantity that is no integer before it
\* looks at a sign; for an integer quantity it fails with the error of both
\* exactly when both operands are negative, with the error of the price
\* exactly when only the price is negative, with the error of the quantity
\* exactly when only the quantity is negative, and otherwise returns
\* quantity * price.
C30_MultiplicationChecks ==
    returned.call = "multiplication" =>
        LET quantity == args.quantity
            price == args.price IN
        IF quantity.type # "int"
        THEN returned = Raised("multiplication", "TypeError: Quantity must be an integer")
        ELSE /\ returned.value = Error("ValueError: Both price and quantity cannot be negative")
                    <=> (quantity.value < 0 /\ price < 0)
             /\ returned.value = Error("ValueError: Price cannot be negative")
                    <=> (quantity.value >= 0 /\ price < 0)
             /\ returned.value = Error("ValueError: Quantity cannot be negative")
                    <=> (quantity.value < 0 /\ price >= 0)
             /\ (quantity.value >= 0 /\ price >= 0)
                    => returned = Returned("multiplication", int(quantity.value * price))
             /\ (quantity.value = 0 /\ price >= 0) => returned.value = int(0)

\* a quantity that is no integer was rejected although its value and the
\* price are negative
C30_Witness ==
    /\ returned = Raised("multiplication", "TypeError: Quantity must be an integer")
    /\ args.quantity.value < 0
    /\ args.price < 0

(***************************************************************************)
(* SpecSeed: the shop is started on an empty database and started again,   *)
(* and the administrator changes banner images in between.                 *)
(***************************************************************************)
MaxSeed == 2
SeedLists == UNION {[1..n -> CategoryNames] : n \in 0..MaxSeed}
SeedMaps == SUBSET BannerNames

\* the table banner without rows
NoBanner == [name \in {} |-> NoImage]

\* Variant: the rows are added without a look at the table.
orm_create_categories_Always(table, categories) == table \o categories

\* requests.py:24-43
orm_create_categories(table, categories) ==
    IF table # <<>> THEN table ELSE table \o categories

\* requests.py:47-66; data holds the names of the banners, their
\* descriptions are read by no function of the model
orm_add_banner_description(b, data) ==
    IF DOMAIN b # {} THEN b ELSE [name \in data |-> NoImage]

InitSeed ==
    /\ product = <<>>
    /\ nextProductId = 1
    /\ cart = {}
    /\ nextId = 1
    /\ start = Snapshot
    /\ last = Op("none", 0, 0, "None", <<>>)
    /\ before = Snapshot
    /\ calls = [p \in ProductIds |-> 0]
    /\ pc = Idle
    /\ arg = NoArg
    /\ loaded = NoLoaded
    /\ ret = NoRet
    /\ lock = NoLock
    /\ chosen = [o \in Chats |-> NoChoice]
    /\ fsmState = [o \in Chats |-> NoState]
    /\ fsmData = [o \in Chats |-> NoData]
    /\ product_for_change = NoProduct
    /\ event = NoEvent
    /\ banner = NoBanner
    /\ category = <<>>
    /\ kbds = NoKeyboards
    /\ \E categories \in SeedLists, data \in SeedMaps :
            args = [categories |-> categories, description_for_info_pages |-> data]
    /\ paginator = NoPaginator
    /\ returned = NoResult

\* engine.py:32
orm_create_categories_call ==
    /\ category' = orm_create_categories(category, args.categories)
    /\ returned' = Returned("orm_create_categories", None)
    /\ UNCHANGED <<args, paginator, appVars>>

\* engine.py:33
orm_add_banner_description_call ==
    /\ banner' = orm_add_banner_description(banner, args.description_for_info_pages)
    /\ returned' = Returned("orm_add_banner_description", None)
    /\ UNCHANGED <<product, nextProductId, fsmState, fsmData, product_for_change, event,
                   chosen, args, paginator, category, kbds>>
    /\ UNCHANGED <<cart, nextId, start, last, before, calls, pc, arg, loaded, ret, lock>>

NextSeed ==
    \/ orm_create_categories_call
    \/ orm_add_banner_description_call
    \/ \E o \in admins : add_content_for_banner(o, "Add/change banner")
    \/ \E o \in admins, caption \in BannerNames : add_banner(o, caption)

SpecSeed == InitSeed /\ [][NextSeed]_vars

\* C29: the seed of the categories inserts the seed list only into an empty
\* table, so that after any number of runs the table holds exactly the rows
\* of the first run; the seed of the banners does the same with the table
\* banner.
C29_SeedingIsIdempotent ==
    /\ category \in {<<>>, args.categories}
    /\ DOMAIN banner \in {{}, args.description_for_info_pages}
    /\ returned.call = "orm_create_categories" => category = args.categories
    /\ returned.call = "orm_add_banner_description"
            => DOMAIN banner = args.description_for_info_pages

\* both seeds ran on tables that hold the rows of an earlier run, one of
\* them a banner with an image
C29_Witness ==
    /\ returned.call = "orm_add_banner_description"
    /\ Len(category) = MaxSeed
    /\ \E name \in DOMAIN banner : banner[name] = FileId

(***************************************************************************)
(* SpecCatalog: a user pages through the products of a category while the  *)
(* administrator deletes products.                                         *)
(***************************************************************************)
CategoryIds == 1..Cardinality(CategoryNames)

\* the elements of a set of numbers in ascending order
Ascending(S) ==
    CHOOSE s \in [1..Cardinality(S) -> S] : \A i, j \in 1..Cardinality(S) : i < j => s[i] < s[j]

\* requests.py:156-172: the ids of the rows of the category
orm_get_products(prod, category_id) ==
    Ascending({id \in DOMAIN prod : prod[id].category_id = category_id})

\* the payload of a button of the menu (keyboards.py, MenuCallBack)
MenuCallBack(level, category_id, page) ==
    "menu:" \o ToString(level) \o ":" \o ToString(category_id) \o ":" \o ToString(page)

\* the user of the catalog
Shopper == CHOOSE u \in Users : \A v \in Users : u <= v

\* no cart line, no operation, no transaction and no dialogue yet
EmptyCart ==
    /\ nextProductId = NumProducts + 1
    /\ cart = {}
    /\ nextId = 1
    /\ start = Snapshot
    /\ last = Op("none", 0, 0, "None", <<>>)
    /\ before = Snapshot
    /\ calls = [p \in ProductIds |-> 0]
    /\ pc = Idle
    /\ arg = NoArg
    /\ loaded = NoLoaded
    /\ ret = NoRet
    /\ lock = NoLock
    /\ NoSession

InitCatalog ==
    /\ \E c \in [Products -> CategoryIds], q \in [Products -> 0..MaxQty] :
            product = [p \in Products |-> Product("n", "d", 1, q[p], "i", c[p])]
    /\ EmptyCart
    /\ args = [category |-> 0, page |-> 0]
    /\ paginator = NoPaginator
    /\ returned = NoResult
    /\ category = Ascending(CategoryIds)
    /\ kbds = NoKeyboards

\* users.py:99-128 with menu.py:128-170 for level 1: the products of the
\* category are read and the Paginator is constructed; its exception leaves
\* products, get_menu_content and user_menu, and the message stays as it is;
\* otherwise the message shows the product of the page with the buttons of
\* the pages next to it
user_menu(user_id, category_id, page) ==
    /\ LET items == orm_get_products(product, category_id) IN
       IF PaginatorError(items, page) # "none"
       THEN /\ returned' = Raised("products", PaginatorError(items, page))
            /\ event' = Event("user_menu", user_id, "callback",
                              MenuCallBack(1, category_id, page), "raise")
            /\ UNCHANGED <<args, paginator>>
       ELSE /\ paginator' = Paginator(items, page)
            /\ args' = [category |-> category_id, page |-> page]
            /\ returned' = Returned("products", int(get_item(Paginator(items, page))))
            /\ event' = Event("user_menu", user_id, "callback",
                              MenuCallBack(1, category_id, page), "done")
    /\ UNCHANGED <<product, nextProductId, banner, fsmState, fsmData, product_for_change,
                   chosen, category, kbds>>
    /\ UNCHANGED <<cart, nextId, start, last, before, calls, pc, arg, loaded, ret, lock>>

\* menu.py:79-99: the pages on the buttons under the product on the screen
pages(self) ==
    {b.value : b \in {has_previous(self), has_next(self)} \ {False}}

NextCatalog ==
    \/ \E c \in CategoryIds : user_menu(Shopper, c, 1)
    \/ \E page \in pages(paginator) : user_menu(Shopper, args.category, page)
    \/ \E o \in admins, id \in ButtonIds : delete_product_callback(o, DeleteData(id))

SpecCatalog == InitCatalog /\ [][NextCatalog]_vars

\* C25: the products of a category without products, or of a page above
\* the number of products of the category, are resolved without an
\* unhandled error.
C25_PagesResolveWithoutError ==
    ~(event.handler = "user_menu" /\ event.result = "raise")

(***************************************************************************)
(* SpecCarts: the resolver carts() of the cart view, cut at the database   *)
(* calls it awaits, run by two transactions at once.                       *)
(***************************************************************************)
\* the pairs carts() returns (menu.py:233, 246, 271)
ContentNoMenu == "(True, False)"
NoContentNoMenu == "(False, False)"
ContentAndMenu == "(image, kbds)"

\* select(Cart).filter(Cart.user_id == user_id)
UserCarts(c, user_id) == {r \in c : r.user_id = user_id}

\* menu.py:228-232: the stock check of the resolver, a plain read of the
\* product row that leaves the Product object in the session
carts_product(t, user_id, product_id) ==
    /\ pc[t] = "idle"
    /\ Call(t, "increment", user_id, product_id)
    /\ IF NoStock(product, product_id)
       THEN /\ Return(t, ContentNoMenu)
            /\ UNCHANGED loaded
       ELSE /\ loaded' = [loaded EXCEPT ![t].quantity = product[product_id].quantity]
            /\ pc' = [pc EXCEPT ![t] = "carts_add"]
            /\ UNCHANGED ret
    /\ UNCHANGED <<storeVars, lock, start, seqVars>>

\* the quantity the locked read of orm_add_to_cart finds in the Product
\* object: the session holds the object of the stock check, and whether
\* the locking SELECT overwrites its attributes is left to the ORM, so
\* both the quantity read at the check and the stored one can come out
Reread(t, product_id) == {loaded[t].quantity, product[product_id].quantity}

\* menu.py:231: orm_add_to_cart (requests.py:289-313) in one step; its
\* return value is dropped by the resolver
carts_add(t) ==
    /\ pc[t] = "carts_add"
    /\ RowLockFree(lock, arg[t].product_id, t)
    /\ IF arg[t].product_id \notin DOMAIN product
       THEN /\ ret' = [ret EXCEPT ![t] = "False"]
            /\ UNCHANGED storeVars
       ELSE \E q \in Reread(t, arg[t].product_id) :
            IF q <= 0
            THEN /\ ret' = [ret EXCEPT ![t] = "False"]
                 /\ UNCHANGED storeVars
            ELSE LET tb == AddToCartCommit(product, cart, nextId, arg[t].user_id,
                                            arg[t].product_id, q,
                                            Scalar(SelectCart(cart, arg[t].user_id,
                                                              arg[t].product_id))) IN
                 /\ product' = tb.product
                 /\ cart' = tb.cart
                 /\ nextId' = tb.nextId
                 /\ ret' = [ret EXCEPT ![t] = tb.ret]
    /\ pc' = [pc EXCEPT ![t] = "carts_baskets"]
    /\ UNCHANGED <<arg, loaded, lock, start, seqVars>>

\* users.py:55-77: the cart is opened, no action comes before the listing
carts_view(t, user_id) ==
    /\ pc[t] = "idle"
    /\ Call(t, "view", user_id, 0)
    /\ pc' = [pc EXCEPT ![t] = "carts_baskets"]
    /\ UNCHANGED <<storeVars, loaded, ret, lock, start, seqVars>>

\* menu.py:243-271: the lines of the user are listed
carts_baskets(t) ==
    /\ pc[t] = "carts_baskets"
    /\ Return(t, IF ScalarsAll(UserCarts(cart, arg[t].user_id)) = <<>>
                 THEN NoContentNoMenu ELSE ContentAndMenu)
    /\ UNCHANGED <<storeVars, arg, loaded, lock, start, seqVars>>

NextCarts ==
    \/ \E t \in Txns, u \in Users, p \in ProductIds : carts_product(t, u, p) /\ UNCHANGED <<calls, wizVars, libVars>>
    \/ \E t \in Txns : carts_add(t) /\ UNCHANGED <<calls, wizVars, libVars>>
    \/ \E t \in Txns, u \in Users : carts_view(t, u) /\ UNCHANGED <<calls, wizVars, libVars>>
    \/ \E t \in Txns : carts_baskets(t) /\ UNCHANGED <<calls, wizVars, libVars>>

SpecCarts == InitConc /\ [][NextCarts]_vars

\* C26: the resolver returns (no content, no menu) exactly when the cart of
\* the user is empty after the action, and (content, no menu) whenever an
\* increment added no unit because the product is absent or out of stock,
\* also when the stock went between the check of the resolver and the
\* locked check of the add; a refused increment changes no cart line and
\* no product.
C26_ResolverPairs ==
    [][\A t \in Txns :
        /\ (pc[t] = "idle" /\ pc'[t] = "done") =>
                (ret'[t] = ContentNoMenu /\ product' = product /\ cart' = cart)
        /\ (pc[t] = "carts_add" /\ pc'[t] # "carts_add" /\ ret'[t] = "False") =>
                (product' = product /\ cart' = cart)
        /\ (pc[t] = "carts_baskets" /\ pc'[t] = "done") =>
                IF arg[t].op = "increment" /\ ret[t] = "False"
                THEN ret'[t] = ContentNoMenu
                ELSE ret'[t] = NoContentNoMenu <=> UserCarts(cart', arg[t].user_id) = {}]_vars

(***************************************************************************)
(* SpecStale: the administrator presses buttons of messages sent before    *)
(* the tables were emptied, so that a button can name a product that is    *)
(* not stored.                                                             *)
(***************************************************************************)
NextStale ==
    \/ \E o \in admins, id \in ButtonIds : change_product_callback(o, ChangeData(id))
    \/ \E o \in admins, id \in ButtonIds : delete_product_callback(o, DeleteData(id))
    \/ \E o \in admins : add_product(o, "Add product")
    \/ \E o \in admins : cancel(o, "cancel")
    \/ \E o \in admins : back_step(o, "Back")
    \/ \E o \in admins, text \in {".", "a"} : add_name(o, text)
    \/ \E o \in admins, text \in {".", "a"} : add_description(o, text)
    \/ \E o \in admins : category_choice_callback(o, "1")
    \/ \E o \in admins : add_price(o, "2")
    \/ \E o \in admins : add_quantity(o, "2")
    \/ \E o \in admins : add_image(o, "photo", "")

SpecStale == InitWizard /\ [][NextStale]_vars

\* C35: a dialogue entered with the button change_<id> creates no product:
\* its commit updates the product <id> or leaves the table product as it is.
C35_EditNeverCreates ==
    [][\A o \in Operators : (Committed(o) /\ chosen[o].kind = "change") =>
        \/ product' = product
        \/ Updated(o, chosen[o].id)]_vars

\* C36: the category the dialogue stores is the id of a category: at step
\* category a callback query that is no press of a category button leaves
\* the step and the data of the chat as they are, and a stored category is
\* the payload of a category button.
C36_CategoryIsChosen ==
    [][\A o \in Operators :
        /\ (fsmState[o] = AllStates[3] /\ event'.user_id = o /\ event'.kind = "callback"
                /\ event'.text \notin Categories) =>
                (fsmState'[o] = fsmState[o] /\ fsmData'[o] = fsmData[o])
        /\ fsmData'[o]["category"] # Unset =>
                (fsmData'[o]["category"].kind = "num" \/ fsmData'[o]["category"].text \in Categories)]_vars

\* the data of a chat at step i hold a value for every step before i, and
\* the data of a chat in no dialogue are empty
Filled(st, d) ==
    /\ \A k \in 1..(StepOf(st) - 1) : d[Fields[k]] # Unset
    /\ st = NoState => d = NoData

\* C37: whenever a chat is at step i of the product dialogue its data hold
\* a value for every step before i, whenever it is in no dialogue its data
\* are empty, and a photo taken at step image finds a value for each of the
\* five steps before it.
C37_EarlierStepsFilled ==
    [][\A o \in Operators :
        /\ Filled(fsmState'[o], fsmData'[o])
        /\ (event'.user_id = o /\ event'.handler = "add_image" /\ event'.kind = "photo") =>
                \A k \in 1..5 : fsmData[o][Fields[k]] # Unset]_vars

\* a step back from step image left the quantity given before in the data
C37_Witness ==
    \E o \in Operators :
        /\ event.user_id = o
        /\ event.handler = "back_step"
        /\ fsmState[o] = AllStates[5]
        /\ fsmData[o]["quantity"] # Unset

\* the cart lines other than the line of user_id for product_id
OtherLines(c, user_id, product_id) ==
    {r \in c : ~(r.user_id = user_id /\ r.product_id = product_id)}

\* C38 (Spec): an add, a decrement or a removal for user u and product p
\* changes at most the quantity of product p and the cart line of u for p;
\* every other product, every other column of p and every other cart line
\* are as before, and listing a cart changes no table.
C38_Frame ==
    /\ last.op \in {"add", "reduce", "delete"} =>
          /\ \A p \in Products :
                IF p = last.product_id
                THEN [product[p] EXCEPT !.quantity = 0] =
                         [before.product[p] EXCEPT !.quantity = 0]
                ELSE product[p] = before.product[p]
          /\ OtherLines(cart, last.user_id, last.product_id) =
                 OtherLines(before.cart, last.user_id, last.product_id)
    /\ last.op = "list" => (product = before.product /\ cart = before.cart)

\* a removal took the line of one user and left the line another user has
\* for the same product
C38_Witness ==
    /\ LastIs("delete")
    /\ LineQuantity(before.cart, last.user_id, last.product_id) > 0
    /\ SelectCart(cart, last.user_id, last.product_id) = {}
    /\ \E r \in cart : r.product_id = last.product_id /\ r.user_id # last.user_id

(***************************************************************************)
(* SpecScreens: one user buys, opens the cart in several messages and      *)
(* presses the buttons of every message still on the screen, also of a     *)
(* message rendered before the cart changed through another message, and   *)
(* pages through the products of a category.                               *)
(***************************************************************************)
\* keyboards.py:24-39, class CartCallback: the payload of a cart button
\* (product_id None is 0)
CartCallback(menu_name, product_id, page) ==
    [menu_name |-> menu_name, product_id |-> product_id, page |-> page]

\* CallbackData.pack()
pack(b) ==
    "cart:" \o b.menu_name \o ":" \o ToString(b.page) \o ":" \o ToString(b.product_id)

\* `if paginator.has_previous():` takes False and 0 as false
Truthy(v) == v.value # 0

\* menu.py:79-99: the names of the pagination buttons
pagination_btns(self) ==
    {n \in {"previous", "next"} :
        Truthy(IF n = "previous" THEN has_previous(self) ELSE has_next(self))}

\* Variant: the next button carries the page of the screen.
PageButtons_NextIsSamePage(page, btns) ==
    {[menu_name |-> n, page |-> IF n = "next" THEN page ELSE page - 1] : n \in btns}

\* keyboards.py:162-173 and 211-220: the pagination row, next with page + 1
\* and previous with page - 1
PageButtons(page, btns) ==
    {[menu_name |-> n, page |-> IF n = "next" THEN page + 1 ELSE page - 1] : n \in btns}

\* keyboards.py:128-173: the pagination buttons under a product
get_products_btns(page, btns) == PageButtons(page, btns)

\* keyboards.py:176-220: the buttons under a cart line
get_user_cart(page, btns, product_id) ==
    {CartCallback(n, product_id, page) : n \in {"delete", "decrement", "increment"}}
        \cup {CartCallback("order", 0, 1)}
        \cup {CartCallback(b.menu_name, 0, b.page) : b \in PageButtons(page, btns)}

\* menu.py:228-241: the action of the resolver on the tables and the page
\* it goes on with; ret is "refused" when the resolver returns at line 233
carts_action(prod, c, nid, user_id, menu_name, page, product_id) ==
    LET row == Scalar(SelectCart(c, user_id, product_id)) IN
    IF menu_name = "increment"
    THEN [page |-> page,
          tb |-> IF NoStock(prod, product_id) THEN Tables(prod, c, nid, "refused")
                 ELSE AddToCartCommit(prod, c, nid, user_id, product_id,
                                      prod[product_id].quantity, row)]
    ELSE IF menu_name = "delete"
    THEN [page |-> IF page > 1 THEN page - 1 ELSE page,
          tb |-> IF row # NoRow
                 THEN DeleteFromCartCommit(prod, c, nid, product_id,
                                           prod[product_id].quantity, row)
                 ELSE Tables(prod, c, nid, "None")]
    ELSE IF menu_name = "decrement"
    THEN LET tb == IF row # NoRow
                   THEN ReduceProductInCartCommit(prod, c, nid, product_id,
                                                  prod[product_id].quantity, row)
                   ELSE Tables(prod, c, nid, "False") IN
         [page |-> IF page > 1 /\ tb.ret = "False" THEN page - 1 ELSE page, tb |-> tb]
    ELSE [page |-> page, tb |-> Tables(prod, c, nid, "None")]

\* menu.py:243-271: the lines are listed and the page is rendered
carts_render(baskets, page) ==
    LET self == Paginator(baskets, page) IN
    Screen(page, self.pages, get_item(self).product_id,
           get_user_cart(page, pagination_btns(self), get_item(self).product_id))

\* menu.py:200-271 called by message m (0 for a new message) with the
\* payload b: the tables take the action also when the Paginator raises
\* afterwards; a refused increment answers and leaves the message, an empty
\* cart deletes it, a page replaces its keyboard (users.py:148-164, 70-77)
carts(handler, m, user_id, b) ==
    LET act == carts_action(product, cart, nextId, user_id, b.menu_name, b.page, b.product_id)
        baskets == ScalarsAll(UserCarts(act.tb.cart, user_id))
        target == IF m = 0 THEN CHOOSE f \in Messages : kbds[f] = NoKeyboard /\
                                    \A g \in Messages : kbds[g] = NoKeyboard => f <= g
                  ELSE m IN
    /\ product' = act.tb.product
    /\ cart' = act.tb.cart
    /\ nextId' = act.tb.nextId
    /\ IF act.tb.ret = "refused"
       THEN /\ returned' = Returned("carts", None)
            /\ event' = Event(handler, user_id, "callback", pack(b), "done")
            /\ UNCHANGED kbds
       ELSE IF baskets = <<>>
       THEN /\ returned' = Returned("carts", False)
            /\ event' = Event(handler, user_id, "callback", pack(b), "done")
            /\ kbds' = IF m = 0 THEN kbds ELSE [kbds EXCEPT ![m] = NoKeyboard]
       ELSE IF PaginatorError(baskets, act.page) # "none"
       THEN /\ returned' = Raised("carts", PaginatorError(baskets, act.page))
            /\ event' = Event(handler, user_id, "callback", pack(b), "raise")
            /\ UNCHANGED kbds
       ELSE /\ returned' = Returned("carts", int(act.page))
            /\ event' = Event(handler, user_id, "callback", pack(b), "done")
            /\ kbds' = [kbds EXCEPT ![target] = carts_render(baskets, act.page)]
    /\ IF act.tb.ret = "refused"
       THEN UNCHANGED seqVars
       ELSE /\ last' = Op("list", user_id, 0, "None", baskets)
            /\ before' = [product |-> act.tb.product, cart |-> act.tb.cart]
    /\ UNCHANGED <<start, calls, concVars, args, paginator, category>>
    /\ UNCHANGED <<nextProductId, banner, fsmState, fsmData, product_for_change, chosen>>

\* users.py:54-77: the text "Корзина" opens the cart in a new message
cart_message(user_id) ==
    /\ \E f \in Messages : kbds[f] = NoKeyboard
    /\ carts("cart", 0, user_id, CartCallback("view", 0, 1))

\* users.py:131-164: a button of message m is pressed
user_cart(m, user_id, b) ==
    /\ b \in kbds[m].btns
    /\ b.menu_name = "increment" => nextId <= MaxCartId
    /\ carts("user_cart", m, user_id, b)

NextScreens ==
    \/ \E p \in Products : orm_add_to_cart(Shopper, p) /\ UNCHANGED <<calls, wizVars, libVars>>
    \/ cart_message(Shopper)
    \/ \E m \in Messages : \E b \in kbds[m].btns : user_cart(m, Shopper, b)
    \/ \E c \in CategoryIds : user_menu(Shopper, c, 1)
    \/ \E b \in get_products_btns(args.page, pagination_btns(paginator)) :
            user_menu(Shopper, args.category, b.page)

\* the products are in stock or sold out, the cart is empty and no message
\* is on the screen
InitScreens ==
    /\ \E q \in [Products -> 0..MaxQty] : product = [p \in Products |-> InStock(q[p])]
    /\ EmptyCart
    /\ args = [category |-> 0, page |-> 0]
    /\ paginator = NoPaginator
    /\ returned = NoResult
    /\ category = Ascending(CategoryIds)
    /\ kbds = NoKeyboards

SpecScreens == InitScreens /\ [][NextScreens]_vars

\* the line of the user for the product of button b is there before the
\* step and gone after it
Removed(b) ==
    /\ SelectCart(cart, Shopper, b.product_id) # {}
    /\ SelectCart(cart', Shopper, b.product_id) = {}

\* C31: the page a delete or a decrement renders is one below the page of
\* the button only when the press removed the line and that page is above
\* 1; a press aimed at a line that is not there, and a decrement that
\* leaves the line, render the page of the button.
C31_PageLoweredOnlyOnRemoval ==
    [][\A m \in Messages : \A b \in kbds[m].btns :
        (/\ event'.handler = "user_cart"
         /\ event'.text = pack(b)
         /\ b.menu_name \in {"delete", "decrement"}
         /\ kbds'[m] # kbds[m]
         /\ kbds'[m] # NoKeyboard) =>
            kbds'[m].page = IF b.page > 1 /\ Removed(b) THEN b.page - 1 ELSE b.page]_vars

\* the pagination buttons btns of a screen of page `page` over n items
WellPaged(btns, page, n) ==
    /\ (\E b \in btns : b.menu_name = "next") <=> page < n
    /\ (\E b \in btns : b.menu_name = "previous") <=> page > 1
    /\ \A b \in btns :
        /\ b.menu_name = "next" => b.page = page + 1
        /\ b.menu_name = "previous" => b.page = page - 1
        /\ b.menu_name \in {"next", "previous"} => b.page \in 1..n

\* C32: a cart screen and a product screen that is rendered has a next
\* button exactly when its page is below the number of items listed at
\* that moment and a previous button exactly when its page is above 1; the
\* buttons carry page + 1 and page - 1, which lie in 1..number of items.
C32_PageButtons ==
    [][/\ \A m \in Messages :
            (kbds'[m] # kbds[m] /\ kbds'[m] # NoKeyboard) =>
                WellPaged(kbds'[m].btns, kbds'[m].page,
                          Cardinality(UserCarts(cart', Shopper)))
       /\ (event'.handler = "user_menu" /\ event'.result = "done") =>
                WellPaged(get_products_btns(args'.page, pagination_btns(paginator')),
                          args'.page,
                          Len(orm_get_products(product', args'.category)))]_vars

\* a cart message shows the second of two lines and the product screen the
\* first of two products
C32_Witness ==
    /\ \E m \in Messages :
        /\ kbds[m].page = 2
        /\ kbds[m].pages = 2
        /\ CartCallback("previous", 0, 1) \in kbds[m].btns
    /\ event.handler = "user_menu"
    /\ paginator.page = 1
    /\ paginator.len = 2

\* C33: whatever cart button of whatever message on the screen is pressed,
\* the resolver of the cart constructs its Paginator without an error.
C33_CartPageExists == ~(returned.call = "carts" /\ returned.kind = "raise")

(***************************************************************************)
(* SpecItems: the shop is started, the administrator uploads banner images *)
(* and a user opens the catalog.                                           *)
(***************************************************************************)
\* aiogram's InputMediaPhoto(media=image): value tells whether the media is
\* set, a NULL column gives None
InputMediaPhoto(media) ==
    [type |-> "InputMediaPhoto", value |-> IF media = NoImage THEN 0 ELSE 1]

\* menu.py:102-125: the banner of the page is read and its image becomes the
\* media of the content; no row of that name gives None, whose attribute
\* image cannot be read
catalog(b, menu_name) ==
    IF menu_name \notin DOMAIN b
    THEN Raised("catalog", "AttributeError: 'NoneType' object has no attribute 'image'")
    ELSE Returned("catalog", InputMediaPhoto(b[menu_name]))

\* engine.py:29-33: both seeds ran before the first update is handled
Polling == DOMAIN banner = args.description_for_info_pages /\ category = args.categories

\* users.py:35-51: the text "Products" resolves level 0 of the menu
items(user_id) ==
    /\ Polling
    /\ returned' = catalog(banner, "catalog")
    /\ event' = Event("items", user_id, "text", "Products",
                      IF catalog(banner, "catalog").kind = "raise" THEN "raise" ELSE "done")
    /\ UNCHANGED <<product, nextProductId, banner, fsmState, fsmData, product_for_change,
                   chosen, args, paginator, category, kbds>>
    /\ UNCHANGED <<cart, nextId, start, last, before, calls, pc, arg, loaded, ret, lock>>

NextItems ==
    \/ orm_create_categories_call
    \/ orm_add_banner_description_call
    \/ \E o \in admins : add_content_for_banner(o, "Add/change banner")
    \/ \E o \in admins, caption \in BannerNames : add_banner(o, caption)
    \/ items(Shopper)

SpecItems == InitSeed /\ [][NextItems]_vars

\* C39: once the seed has stored the banner "catalog", level 0 of the menu
\* resolves to content whose image is set, also before any image was
\* uploaded in the banner dialogue.
C39_CatalogHasImage ==
    (returned.call = "catalog" /\ "catalog" \in args.description_for_info_pages) =>
        returned = Returned("catalog", InputMediaPhoto(FileId))

(***************************************************************************)
(* SpecEdit: the administrator changes stored products and keeps every     *)
(* value but the category with ".", while a user adds units to the cart    *)
(* and gives them back.                                                    *)
(***************************************************************************)
\* menu.py:173-197: the buy button, while the line is below MaxLine
buy(user_id, product_id) ==
    /\ LineQuantity(cart, user_id, product_id) < MaxLine
    /\ orm_add_to_cart(user_id, product_id)

\* menu.py:238-239: the button -1 of the cart, while the stock is below MaxQty
give_back(user_id, product_id) ==
    /\ product[product_id].quantity < MaxQty
    /\ orm_reduce_product_in_cart(user_id, product_id)

NextEdit ==
    \/ \E o \in admins, id \in Products : change_product_callback(o, ChangeData(id))
    \/ \E o \in admins : cancel(o, "cancel")
    \/ \E o \in admins : add_name(o, ".")
    \/ \E o \in admins : add_description(o, ".")
    \/ \E o \in admins : category_choice_callback(o, "1")
    \/ \E o \in admins : add_price(o, ".")
    \/ \E o \in admins : add_quantity(o, ".")
    \/ \E o \in admins, kind \in {"photo", "text"} : add_image(o, kind, IF kind = "text" THEN "." ELSE "")
    \/ \E p \in Products : buy(Shopper, p) /\ UNCHANGED <<calls, wizVars, libVars>>
    \/ \E p \in Products : give_back(Shopper, p) /\ UNCHANGED <<calls, wizVars, libVars>>

SpecEdit == InitScreens /\ [][NextEdit]_vars

\* C34: the commit of a dialogue that kept the quantity with "." leaves the
\* quantity of every product as it was stored right before the commit, so
\* that the stock plus the units in the carts is the same before and after
\* it, whatever the users added or gave back while the dialogue was open.
C34_KeptQuantityIsTheStoredOne ==
    [][\A o \in Operators : (fsmState[o] = AllStates[6] /\ Committed(o)) =>
        \A p \in Products :
            /\ product'[p].quantity = product[p].quantity
            /\ Total(product', cart', p) = Total(product, cart, p)]_vars

=============================================================================
